---- MODULE Spec2Model ----
(***************************************************************************)
(* Model of the preference-learning and ranking pipeline of                *)
(* local_recommender_zkp_new: the browser client (src/src/main.js and      *)
(* model.js, kept as src/unnamed/part_002), its request encoding           *)
(* (src/src/api.js) and the Express gateway (src/unnamed/part_000).        *)
(*                                                                         *)
(* Numbers.  JavaScript weights are doubles; here a weight is an integer   *)
(* number of ten-thousandths (Unit = 1.0) and every product is truncated   *)
(* to that grid.  Times are integer milliseconds.                          *)
(*                                                                         *)
(* Control.  Every async function is cut at its awaits.  A task is one     *)
(* top-level invocation (a UI event, a timer callback, a direct call of an *)
(* exported function); stack[t] is its chain of suspended frames,          *)
(* innermost last.  One action runs one task from a resumption point to    *)
(* its next await, as the single-threaded event loop does.  microQ is the  *)
(* FIFO queue of continuations whose awaited promise is already settled;   *)
(* UI events, timers and IO completions are macrotasks and run only when   *)
(* microQ is empty.                                                        *)
(***************************************************************************)
EXTENDS Integers, Sequences, FiniteSets, TLC

VARIABLES
    \* main.js: feed and ledger state
    interactions, lastViewedPostId, postViewStartTime, batch, current,
    isLoadingBatch, lastAnalyzed, idleTimeout,
    \* model.js: model and history state
    tfModel, modelTrained, modelTraining, modelTrainingPromise,
    MODEL_TOPICS, MODEL_HASHTAGS, previousTopicsResults, previousHashtagsResults,
    \* server.js: the corpus and the last request it served
    posts, gw,
    \* the event loop: clock, suspended frames, settled continuations
    now, stack, microQ,
    \* observation: what each task's call came to, the
    \* number of macrotasks so far, the last direct call of a pure function,
    \* the calls of fetchPosts that each task's current event has led to
    outcome, steps, probe, fetches

vars == << interactions, lastViewedPostId, postViewStartTime, batch, current,
           isLoadingBatch, lastAnalyzed, idleTimeout,
           tfModel, modelTrained, modelTraining, modelTrainingPromise,
           MODEL_TOPICS, MODEL_HASHTAGS, previousTopicsResults,
           previousHashtagsResults, posts, gw, now, stack, microQ,
           outcome, steps, probe, fetches >>

-----------------------------------------------------------------------------
(* Arithmetic and sequences *)

Unit == 10^4

Min(a, b) == IF a < b THEN a ELSE b

Max(a, b) == IF a > b THEN a ELSE b

Range(s) == { s[i] : i \in DOMAIN s }

Includes(s, x) == \E i \in DOMAIN s : s[i] = x

\* Array.prototype.slice(0, n) for n >= 0
Take(s, n) == SubSeq(s, 1, Min(n, Len(s)))

\* Array.prototype.slice(-n)
TakeLast(s, n) == SubSeq(s, Max(1, Len(s) - n + 1), Len(s))

RECURSIVE SumSeq(_)
SumSeq(s) == IF s = <<>> THEN 0 ELSE Head(s) + SumSeq(Tail(s))

\* number of occurrences of x in s
Occ(s, x) == Cardinality({ i \in DOMAIN s : s[i] = x })

RECURSIVE Dedup(_)
\* Array.from(new Set(s)): first occurrences, in order
Dedup(s) ==
    IF s = <<>> THEN <<>>
    ELSE LET init == Dedup(SubSeq(s, 1, Len(s) - 1))
         IN IF Includes(init, s[Len(s)]) THEN init ELSE Append(init, s[Len(s)])

RECURSIVE Flatten(_)
Flatten(ss) == IF ss = <<>> THEN <<>> ELSE Head(ss) \o Flatten(Tail(ss))

-----------------------------------------------------------------------------
(* Weighted lists: sequences of [name, weight] *)

Entry(n, w) == [name |-> n, weight |-> w]

RECURSIVE InsertDesc(_, _)
InsertDesc(sorted, e) ==
    IF sorted = <<>> THEN <<e>>
    ELSE IF Head(sorted).weight >= e.weight
         THEN <<Head(sorted)>> \o InsertDesc(Tail(sorted), e)
         ELSE <<e>> \o sorted

RECURSIVE SortDesc(_)
\* list.sort((a, b) => b.weight - a.weight); Array.prototype.sort is stable
SortDesc(s) ==
    IF s = <<>> THEN <<>>
    ELSE InsertDesc(SortDesc(SubSeq(s, 1, Len(s) - 1)), s[Len(s)])

IsDesc(s) == \A i \in 1..(Len(s) - 1) : s[i].weight >= s[i + 1].weight

\* 0.1, the weight every emitted entry must exceed
MinWeight == Unit \div 10

AboveMinMutant(s) == s

\* list.filter(e => e.weight > 0.1)
AboveMin(s) == SelectSeq(s, LAMBDA e : e.weight > MinWeight)

NoResults == [topics |-> <<>>, hashtags |-> <<>>]

-----------------------------------------------------------------------------
(* model.js: constants *)

MAX_STORED_RESULTS == 5

WEIGHT_LIKED == 3 * Unit

WEIGHT_INTERESTED == 2 * Unit

WEIGHT_NOT_INTERESTED == -4 * Unit

WEIGHT_COMMENTED == (3 * Unit) \div 2

MIN_INTERACTIONS == 10

\* inter.duration || 10000: no record carries a duration
DEFAULT_DURATION == 10000

\* timeSpentMs / duration, in ten-thousandths
TimeRatio(ms) == ms * (Unit \div DEFAULT_DURATION)

ExplicitScore(inter) ==
      (IF inter.liked THEN WEIGHT_LIKED ELSE 0)
    + (IF inter.interested THEN WEIGHT_INTERESTED ELSE 0)
    + (IF inter.not_interested THEN WEIGHT_NOT_INTERESTED ELSE 0)
    + (IF inter.commented THEN WEIGHT_COMMENTED ELSE 0)

\* the dwell-time term added whatever the flags are
TrainingScoreMutant(inter) ==
    ExplicitScore(inter) + (TimeRatio(inter.timeSpentMs) - Unit \div 2) * 2

\* trainModel's preferenceScore of one record
TrainingScore(inter) ==
    ExplicitScore(inter)
    + (IF ~inter.liked /\ ~inter.interested /\ ~inter.not_interested
          /\ ~inter.commented
       THEN (TimeRatio(inter.timeSpentMs) - Unit \div 2) * 2
       ELSE 0)

\* trainModel's class of one record: 0 disengaged, 1 neutral, 2 engaged
TrainingLabel(inter) ==
    IF 2 * TrainingScore(inter) <= -3 * Unit THEN 0
    ELSE IF 2 * TrainingScore(inter) >= 3 * Unit THEN 2
    ELSE 1

\* the same with the short-watch penalty added instead of subtracted
HeuristicScoreMutant(inter) ==
    ExplicitScore(inter)
    + (IF 10 * TimeRatio(inter.timeSpentMs) > 7 * Unit THEN Unit ELSE 0)
    + (IF 10 * TimeRatio(inter.timeSpentMs) < 2 * Unit THEN Unit ELSE 0)

\* analyzeWithoutModel's score of one record
HeuristicScore(inter) ==
    ExplicitScore(inter)
    + (IF 10 * TimeRatio(inter.timeSpentMs) > 7 * Unit THEN Unit ELSE 0)
    - (IF 10 * TimeRatio(inter.timeSpentMs) < 2 * Unit THEN Unit ELSE 0)

-----------------------------------------------------------------------------
(* model.js: findNaturalSplit *)

SplitKeepAll == 3

ScanPairs == 10

FallbackKeep == 5

\* gap / w > num / den as IEEE doubles decide it: x/0 is +Infinity for
\* x > 0 and NaN for x = 0, and NaN compares false
RelativeGapOver(gap, w, num, den) ==
    IF w > 0 THEN gap * den > num * w
    ELSE IF w = 0 THEN gap > 0
    ELSE gap * den < num * w

RECURSIVE SplitScanMutant(_, _, _, _)
\* the loop taking every gap over the threshold, not only a larger one
SplitScanMutant(items, i, splitIdx, maxGap) ==
    IF i >= Min(Len(items) - 1, ScanPairs) THEN splitIdx
    ELSE LET w   == items[i + 1].weight
             gap == w - items[i + 2].weight
             overThreshold == 4 * gap > Max(4 * MinWeight, items[1].weight)
         IN IF overThreshold \/ RelativeGapOver(gap, w, 4, 10)
            THEN IF RelativeGapOver(gap, w, 6, 10)
                 THEN i + 1
                 ELSE SplitScanMutant(items, i + 1, i + 1, gap)
            ELSE SplitScanMutant(items, i + 1, splitIdx, maxGap)

RECURSIVE SplitScan(_, _, _, _)
\* the for loop from index i (0-based) with the loop's splitIdx and maxGap
SplitScan(items, i, splitIdx, maxGap) ==
    IF i >= Min(Len(items) - 1, ScanPairs) THEN splitIdx
    ELSE LET w   == items[i + 1].weight
             gap == w - items[i + 2].weight
             \* gap > Math.max(0.1, items[0].weight * 0.25)
             overThreshold == 4 * gap > Max(4 * MinWeight, items[1].weight)
         IN IF (gap > maxGap /\ overThreshold) \/ RelativeGapOver(gap, w, 4, 10)
            THEN IF RelativeGapOver(gap, w, 6, 10)
                 THEN i + 1
                 ELSE SplitScan(items, i + 1, i + 1, gap)
            ELSE SplitScan(items, i + 1, splitIdx, maxGap)

SplitFallbackMutant(items, minThreshold) == FallbackKeep

\* Math.min(5, items.filter(item => item.weight > minThreshold).length)
SplitFallback(items, minThreshold) ==
    Min(FallbackKeep,
        Len(SelectSeq(items, LAMBDA e : e.weight > minThreshold)))

findNaturalSplit(items, minThreshold) ==
    IF Len(items) <= SplitKeepAll THEN Len(items)
    ELSE LET splitIdx == SplitScan(items, 0, Len(items), 0)
         IN IF splitIdx = Len(items)
            THEN SplitFallback(items, minThreshold)
            ELSE splitIdx

-----------------------------------------------------------------------------
(* model.js: analyzeWithoutModel *)

RECURSIVE NameTotal(_, _, _)
\* positive - negative of one vocabulary name over the window: each
\* occurrence of the name on a record adds the record's score
NameTotal(name, field, window) ==
    IF window = <<>> THEN 0
    ELSE Occ(Head(window)[field], name) * HeuristicScore(Head(window))
         + NameTotal(name, field, Tail(window))

RECURSIVE NameCount(_, _, _)
NameCount(name, field, window) ==
    IF window = <<>> THEN 0
    ELSE Occ(Head(window)[field], name) + NameCount(name, field, Tail(window))

\* avg * 0.6 + (total / Math.max(1, interactions.length)) * 0.4
CompositeWeight(name, field, window) ==
    LET total == NameTotal(name, field, window)
        count == NameCount(name, field, window)
        avg6  == IF count > 0 THEN (6 * total) \div (10 * count) ELSE 0
    IN avg6 + (4 * total) \div (10 * Max(1, Len(window)))

HeuristicList(vocabulary, field, window) ==
    LET scored == [i \in DOMAIN vocabulary |->
                     Entry(vocabulary[i],
                           CompositeWeight(vocabulary[i], field, window))]
        sorted == SortDesc(SelectSeq(scored, LAMBDA e : e.weight # 0))
    IN Take(AboveMin(sorted), FallbackKeep)

analyzeWithoutModel(topics, hashtags, window) ==
    [topics   |-> HeuristicList(topics, "topics", window),
     hashtags |-> HeuristicList(hashtags, "hashtags", window)]

-----------------------------------------------------------------------------
(* model.js: the learned path of analyzeInteractions.  The network's     *)
(* output is not computed: pred[name] stands for P(engaged) -            *)
(* P(disengaged) of the row probed for that name, any value in (-1, 1).  *)

LearnedList(vocabulary, pred) ==
    LET scored == SortDesc([i \in DOMAIN vocabulary |->
                              Entry(vocabulary[i], pred[vocabulary[i]])])
        splitIdx == findNaturalSplit(scored, MinWeight)
    IN AboveMin(Take(scored, splitIdx))

analyzeWithModel(topics, hashtags, pred) ==
    [topics   |-> LearnedList(topics, pred),
     hashtags |-> LearnedList(hashtags, pred)]

-----------------------------------------------------------------------------
(* model.js: blendWithPreviousResults and storeResults *)

RECURSIVE Pow(_, _)
Pow(b, e) == IF e = 0 THEN 1 ELSE b * Pow(b, e - 1)

\* 0.8 ** (k - i - 1) for the i-th (0-based) of k snapshots
RecencyWeight(k, i) == (Pow(8, k - i - 1) * Unit) \div Pow(10, k - i - 1)

IndexOfName(list, n) ==
    IF \E j \in DOMAIN list : list[j].name = n
    THEN CHOOSE j \in DOMAIN list : list[j].name = n /\
             \A m \in DOMAIN list : list[m].name = n => j <= m
    ELSE 0

BlendedWeightMutant(cw, pw, recency) == cw

\* current.weight * 0.7 + prev.weight * 0.3 * recencyWeight
BlendedWeight(cw, pw, recency) ==
    (7 * cw) \div 10 + (((pw * recency) \div Unit) * 3) \div 10

\* prev.weight * 0.4 * recencyWeight
CarriedWeight(pw, recency) == (((pw * recency) \div Unit) * 4) \div 10

\* one iteration of "for (const prevTopic of prevTopics)"
BlendEntry(list, prev, recency) ==
    LET j == IndexOfName(list, prev.name)
    IN IF j > 0
       THEN [list EXCEPT ![j].weight = BlendedWeight(@, prev.weight, recency)]
       ELSE IF 10 * prev.weight > 3 * Unit
            THEN Append(list, Entry(prev.name, CarriedWeight(prev.weight, recency)))
            ELSE list

RECURSIVE BlendSnapshot(_, _, _)
BlendSnapshot(list, snapshot, recency) ==
    IF snapshot = <<>> THEN list
    ELSE BlendSnapshot(BlendEntry(list, Head(snapshot), recency),
                       Tail(snapshot), recency)

RECURSIVE BlendHistory(_, _, _)
\* "for (let i = 0; i < previous.length; i++)" from i on, oldest first
BlendHistory(list, history, i) ==
    IF i >= Len(history) THEN list
    ELSE BlendHistory(
             BlendSnapshot(list, history[i + 1], RecencyWeight(Len(history), i)),
             history, i + 1)

BlendEarlyReturnMutant(currentResults, prevTopics, prevHashtags) ==
    [topics   |-> AboveMin(SortDesc(BlendHistory(currentResults.topics, prevTopics, 0))),
     hashtags |-> AboveMin(SortDesc(BlendHistory(currentResults.hashtags, prevHashtags, 0)))]

blendWithPreviousResults(currentResults, prevTopics, prevHashtags) ==
    IF Len(prevTopics) = 0 THEN currentResults
    ELSE [topics   |-> AboveMin(SortDesc(
                          BlendHistory(currentResults.topics, prevTopics, 0))),
          hashtags |-> AboveMin(SortDesc(
                          BlendHistory(currentResults.hashtags, prevHashtags, 0)))]

\* the same with pop() in place of shift()
StoreListMutant(history, list) ==
    IF Len(list) > 0
    THEN IF Len(history) + 1 > MAX_STORED_RESULTS
         THEN Append(SubSeq(history, 1, Len(history) - 1), list)
         ELSE Append(history, list)
    ELSE history

\* one domain of storeResults: push a non-empty list, shift beyond the cap
StoreList(history, list) ==
    IF Len(list) > 0
    THEN IF Len(history) + 1 > MAX_STORED_RESULTS
         THEN Tail(Append(history, list))
         ELSE Append(history, list)
    ELSE history

-----------------------------------------------------------------------------
(* api.js and server.js: the text of a query parameter.  A text is kept   *)
(* by its syntactic form: "absent" (no parameter, or the empty string),   *)
(* "csv" (pieces separated by commas, none of them JSON unless the text   *)
(* is one piece that reads as a JSON literal), "json_objects" (a JSON     *)
(* array of {name, weight}) and "json_strings" (a JSON array of strings). *)

AbsentText == [form |-> "absent", names |-> <<>>, entries |-> <<>>]

\* fetchPosts: url.searchParams.append(key, value.join(","))
JoinNames(names) ==
    IF names = <<>> THEN AbsentText
    ELSE [form |-> "csv", names |-> names, entries |-> <<>>]

\* JSON.stringify of a weighted list
WeightedText(entries) ==
    [form |-> "json_objects", names |-> <<>>, entries |-> entries]

\* JSON.stringify of a list of names
NamesText(names) == [form |-> "json_strings", names |-> names, entries |-> <<>>]

\* the one-piece texts that JSON.parse accepts
JsonLiterals == {"null", "true", "42"}

LiteralType(piece) ==
    IF piece = "null" THEN "null" ELSE IF piece = "true" THEN "bool" ELSE "number"

\* a JavaScript value as the handler sees it: its type and, for an array,
\* its elements
JsArray(elems) == [type |-> "array", elems |-> elems]

JsScalar(type) == [type |-> type, elems |-> <<>>]

ObjectElem(n, w) == [kind |-> "object", name |-> n, weight |-> w]

StringElem(n) == [kind |-> "string", name |-> n, weight |-> 0]

\* whether JSON.parse(text) returns
JsonParses(text) ==
    \/ text.form \in {"json_objects", "json_strings"}
    \/ text.form = "csv" /\ Len(text.names) = 1 /\ text.names[1] \in JsonLiterals

\* JSON.parse(text), where it returns
JsonParse(text) ==
    IF text.form = "json_objects"
    THEN JsArray([i \in DOMAIN text.entries |->
                    ObjectElem(text.entries[i].name, text.entries[i].weight)])
    ELSE IF text.form = "json_strings"
    THEN JsArray([i \in DOMAIN text.names |-> StringElem(text.names[i])])
    ELSE JsScalar(LiteralType(text.names[1]))

\* text.split(',').map(name => ({ name, weight: 1 }))
SplitFallbackParse(text) ==
    JsArray([i \in DOMAIN text.names |-> ObjectElem(text.names[i], Unit)])

\* one of the two try blocks of the handler: the query parameter, else the
\* body's value, else []
ParsePreference(text, bodyValue) ==
    IF text.form # "absent"
    THEN IF JsonParses(text) THEN JsonParse(text) ELSE SplitFallbackParse(text)
    ELSE IF bodyValue.type = "array" /\ Len(bodyValue.elems) > 0
         THEN bodyValue
         ELSE JsArray(<<>>)

-----------------------------------------------------------------------------
(* server.js: GET /api/posts *)

DEFAULT_LIMIT == 10

Post(id, topics, hashtags) == [id |-> id, topics |-> topics, hashtags |-> hashtags]

Reverse(s) == [i \in DOMAIN s |-> s[Len(s) + 1 - i]]

Rotate(s, r) ==
    IF s = <<>> THEN s
    ELSE LET k == r % Len(s)
         IN SubSeq(s, k + 1, Len(s)) \o SubSeq(s, 1, k)

\* list.sort(() => 0.5 - Math.random()): some permutation of the list.  The
\* permutations drawn are the rotations and their reversals, picked by seed.
Shuffle(s, seed) ==
    IF seed.rev THEN Reverse(Rotate(s, seed.rot)) ELSE Rotate(s, seed.rot)

\* value.length as a condition
Length(v) == IF v.type = "array" THEN Len(v.elems) ELSE 0

\* v.length && typeof v[0] === 'object'
FirstIsObject(v) == Length(v) > 0 /\ v.elems[1].kind = "object"

\* Object.fromEntries(v.map(t => [t.name, t.weight]))[n] || 0
WeightOf(v, n) ==
    LET hits == { i \in DOMAIN v.elems :
                    v.elems[i].kind = "object" /\ v.elems[i].name = n }
    IN IF hits = {} THEN 0
       ELSE v.elems[CHOOSE i \in hits : \A j \in hits : j <= i].weight

RECURSIVE SumWeights(_, _)
\* names.reduce((sum, t) => sum + (map[t] || 0), 0)
SumWeights(v, names) ==
    IF names = <<>> THEN 0
    ELSE WeightOf(v, Head(names)) + SumWeights(v, Tail(names))

PostScore(post, userTopics, userHashtags) ==
    SumWeights(userTopics, post.topics) + SumWeights(userHashtags, post.hashtags)

\* the value's elements include the bare name n
IncludesName(v, n) ==
    \E i \in DOMAIN v.elems : v.elems[i].kind = "string" /\ v.elems[i].name = n

NameMatch(post, userTopics, userHashtags) ==
    \/ Length(userTopics) > 0
         /\ \E i \in DOMAIN post.topics : IncludesName(userTopics, post.topics[i])
    \/ Length(userHashtags) > 0
         /\ \E i \in DOMAIN post.hashtags : IncludesName(userHashtags, post.hashtags[i])

\* reading .length of null, or calling .map on a value that is no array
HandlerThrows(userTopics, userHashtags) ==
    \/ userTopics.type = "null"
    \/ ~FirstIsObject(userTopics) /\ userHashtags.type = "null"
    \/ (FirstIsObject(userTopics) \/ FirstIsObject(userHashtags))
         /\ (userTopics.type # "array" \/ userHashtags.type # "array")

RelevantPoolMutant(corpus, mode, limit, userTopics, userHashtags) ==
    IF mode = "weighted"
    THEN Take(SelectSeq(corpus, LAMBDA p : PostScore(p, userTopics, userHashtags) > 0),
              2 * limit)
    ELSE IF mode = "names"
    THEN SelectSeq(corpus, LAMBDA p : NameMatch(p, userTopics, userHashtags))
    ELSE corpus

\* "filtered" before the noise is added
RelevantPool(corpus, mode, limit, userTopics, userHashtags) ==
    IF mode = "weighted"
    THEN LET scored == SortDesc([i \in DOMAIN corpus |->
                         [post |-> corpus[i],
                          weight |-> PostScore(corpus[i], userTopics, userHashtags)]])
         IN [i \in DOMAIN Take(scored, 2 * limit) |-> scored[i].post]
    ELSE IF mode = "names"
    THEN SelectSeq(corpus, LAMBDA p : NameMatch(p, userTopics, userHashtags))
    ELSE corpus

NoiseMutant(corpus, relevant, mode, limit, seed) ==
    IF mode = "none" THEN <<>>
    ELSE Take(Shuffle(corpus, seed), (3 * limit) \div 10)

\* posts.filter(post => !filtered.includes(post)).sort(random).slice(0, noiseCount)
Noise(corpus, relevant, mode, limit, seed) ==
    IF mode = "none" THEN <<>>
    ELSE Take(Shuffle(SelectSeq(corpus, LAMBDA p : ~Includes(relevant, p)), seed),
              (3 * limit) \div 10)

\* the two credential headers of a request, by what the verification
\* middleware reads of them: whether both are present, whether both parse
\* as JSON, whether the proof verifies, and the root it was made for
Credential(present, parses, verifies, root) ==
    [present |-> present, parses |-> parses, verifies |-> verifies, root |-> root]

NoCredential == Credential(FALSE, FALSE, FALSE, "none")

\* the root the middleware compares publicSignals[0] with
ExpectedRoot == "3659df8a"

\* the root loadBatch passes to generateZKPProof
ClientRoot == "4b197fc3"

NoRequest ==
    [limit |-> 0, topics |-> AbsentText, hashtags |-> AbsentText,
     bodyTopics |-> JsScalar("undefined"), bodyHashtags |-> JsScalar("undefined"),
     auth |-> NoCredential]

\* what the handler computed for a request, and its response
GetPosts(corpus, req, noiseSeed, batchSeed) ==
    LET limit        == IF req.limit = 0 THEN DEFAULT_LIMIT ELSE req.limit
        userTopics   == ParsePreference(req.topics, req.bodyTopics)
        userHashtags == ParsePreference(req.hashtags, req.bodyHashtags)
        mode == IF FirstIsObject(userTopics) \/ FirstIsObject(userHashtags)
                THEN "weighted"
                ELSE IF Length(userTopics) > 0 \/ Length(userHashtags) > 0
                     THEN "names" ELSE "none"
        relevant == RelevantPool(corpus, mode, limit, userTopics, userHashtags)
        noise    == Noise(corpus, relevant, mode, limit, noiseSeed)
        filtered == relevant \o noise
    IN IF HandlerThrows(userTopics, userHashtags)
       THEN [req |-> req, status |-> 500, mode |-> "error", limit |-> limit,
             userTopics |-> userTopics, userHashtags |-> userHashtags,
             relevant |-> <<>>, noise |-> <<>>, filtered |-> <<>>,
             posts |-> <<>>, total |-> 0]
       ELSE [req |-> req, status |-> 200, mode |-> mode, limit |-> limit,
             userTopics |-> userTopics, userHashtags |-> userHashtags,
             relevant |-> relevant, noise |-> noise, filtered |-> filtered,
             posts |-> Take(Shuffle(filtered, batchSeed), limit),
             total |-> Len(corpus)]

\* an array as the handler holds it: shared says that it is the corpus
\* object itself and not a copy of it
ArrayOf(shared, elems) == [shared |-> shared, elems |-> elems]

\* the value of map, filter, slice or concat: a new array
NewArray(elems) == ArrayOf(FALSE, elems)

\* the final sort applied to "filtered" itself
SliceMutant(a) == a

\* filtered.slice()
Slice(a) == NewArray(a.elems)

\* receiver.sort(...) rearranges its receiver in place: the corpus after it
CorpusAfterSort(corpus, receiver, sorted) ==
    IF receiver.shared THEN sorted ELSE corpus

\* the corpus after the handler answered: "let filtered = posts" makes
\* filtered the corpus object until a branch reassigns it
CorpusAfter(corpus, response, noiseSeed, batchSeed) ==
    LET weighted  == response.mode = "weighted"
        withPrefs == response.mode \in {"weighted", "names"}
        filtered  == IF withPrefs THEN NewArray(response.filtered)
                     ELSE ArrayOf(TRUE, corpus)
        \* posts.map(...).sort(...)
        c1 == IF weighted
              THEN CorpusAfterSort(corpus, NewArray(corpus), response.relevant)
              ELSE corpus
        \* posts.filter(...).sort(...)
        c2 == IF withPrefs
              THEN CorpusAfterSort(c1, NewArray(response.noise),
                                   Shuffle(response.noise, noiseSeed))
              ELSE c1
        \* filtered.slice().sort(...)
        c3 == CorpusAfterSort(c2, Slice(filtered),
                              Shuffle(filtered.elems, batchSeed))
    IN IF response.status = 200 THEN c3 ELSE corpus

\* gw before any request
NoResponse ==
    [req |-> NoRequest, status |-> 0, mode |-> "idle", limit |-> 0,
     userTopics |-> JsArray(<<>>), userHashtags |-> JsArray(<<>>),
     relevant |-> <<>>, noise |-> <<>>, filtered |-> <<>>,
     posts |-> <<>>, total |-> 0]

-----------------------------------------------------------------------------
(* The program state as one record, so that the statements of a handler   *)
(* compose: an operator below takes the state before a piece of code and  *)
(* returns the state after it.                                            *)

St ==
    [interactions |-> interactions, lastViewedPostId |-> lastViewedPostId,
     postViewStartTime |-> postViewStartTime, batch |-> batch,
     current |-> current, isLoadingBatch |-> isLoadingBatch,
     lastAnalyzed |-> lastAnalyzed, idleTimeout |-> idleTimeout,
     tfModel |-> tfModel, modelTrained |-> modelTrained,
     modelTraining |-> modelTraining,
     modelTrainingPromise |-> modelTrainingPromise,
     MODEL_TOPICS |-> MODEL_TOPICS, MODEL_HASHTAGS |-> MODEL_HASHTAGS,
     previousTopicsResults |-> previousTopicsResults,
     previousHashtagsResults |-> previousHashtagsResults,
     posts |-> posts, gw |-> gw, now |-> now, stack |-> stack,
     microQ |-> microQ, outcome |-> outcome, steps |-> steps, probe |-> probe,
     fetches |-> fetches]

\* the next state is s
Commit(s) ==
    /\ interactions' = s.interactions
    /\ lastViewedPostId' = s.lastViewedPostId
    /\ postViewStartTime' = s.postViewStartTime
    /\ batch' = s.batch
    /\ current' = s.current
    /\ isLoadingBatch' = s.isLoadingBatch
    /\ lastAnalyzed' = s.lastAnalyzed
    /\ idleTimeout' = s.idleTimeout
    /\ tfModel' = s.tfModel
    /\ modelTrained' = s.modelTrained
    /\ modelTraining' = s.modelTraining
    /\ modelTrainingPromise' = s.modelTrainingPromise
    /\ MODEL_TOPICS' = s.MODEL_TOPICS
    /\ MODEL_HASHTAGS' = s.MODEL_HASHTAGS
    /\ previousTopicsResults' = s.previousTopicsResults
    /\ previousHashtagsResults' = s.previousHashtagsResults
    /\ posts' = s.posts
    /\ gw' = s.gw
    /\ now' = s.now
    /\ stack' = s.stack
    /\ microQ' = s.microQ
    /\ outcome' = s.outcome
    /\ steps' = s.steps
    /\ probe' = s.probe
    /\ fetches' = s.fetches

\* the initial state is s
Start(s) ==
    /\ interactions = s.interactions
    /\ lastViewedPostId = s.lastViewedPostId
    /\ postViewStartTime = s.postViewStartTime
    /\ batch = s.batch
    /\ current = s.current
    /\ isLoadingBatch = s.isLoadingBatch
    /\ lastAnalyzed = s.lastAnalyzed
    /\ idleTimeout = s.idleTimeout
    /\ tfModel = s.tfModel
    /\ modelTrained = s.modelTrained
    /\ modelTraining = s.modelTraining
    /\ modelTrainingPromise = s.modelTrainingPromise
    /\ MODEL_TOPICS = s.MODEL_TOPICS
    /\ MODEL_HASHTAGS = s.MODEL_HASHTAGS
    /\ previousTopicsResults = s.previousTopicsResults
    /\ previousHashtagsResults = s.previousHashtagsResults
    /\ posts = s.posts
    /\ gw = s.gw
    /\ now = s.now
    /\ stack = s.stack
    /\ microQ = s.microQ
    /\ outcome = s.outcome
    /\ steps = s.steps
    /\ probe = s.probe
    /\ fetches = s.fetches

-----------------------------------------------------------------------------
(* Tasks and frames *)

\* chains started by a key press or by initializeApp
NavTasks == {"nav1", "nav2"}

\* direct calls of the exported trainModel
TrainCallers == {"train1", "train2"}

\* direct calls of the exported analyzeInteractions
AnalyzeCallers == {"analyze1"}

TaskOrder == <<"nav1", "nav2", "timer", "train1", "train2", "analyze1">>

Tasks == Range(TaskOrder)

\* a suspended frame: the await it stands at (f), and what it holds: the
\* request being sent, the promise awaited, the model object being fitted,
\* and on resumption the awaited call's value (val) or that it threw (err)
Frame(f) ==
    [f |-> f, req |-> NoRequest, promise |-> "none", model |-> 0,
     val |-> NoResults, err |-> FALSE]

Top(s, t) == s.stack[t][Len(s.stack[t])]

Suspend(s, t, frame) == [s EXCEPT !.stack[t] = Append(@, frame)]

Pop(s, t) == [s EXCEPT !.stack[t] = SubSeq(@, 1, Len(@) - 1)]

Relabel(s, t, frame) == [s EXCEPT !.stack[t][Len(s.stack[t])] = frame]

\* awaiting a promise that is already settled: the continuation is queued
Ready(s, t) == [s EXCEPT !.microQ = Append(@, t)]

\* what a call came to, for the task that made it
Outcome(status, val) == [status |-> status, val |-> val]

SetOutcome(s, t, status, val) ==
    [s EXCEPT !.outcome[t] = Outcome(status, val)]

\* an async function returns val, or throws (err): the frame awaiting it,
\* when there is one, takes the result and is queued
Settle(s, t, val, err) ==
    IF s.stack[t] = <<>> THEN s
    ELSE [s EXCEPT !.stack[t][Len(s.stack[t])].val = val,
                   !.stack[t][Len(s.stack[t])].err = err,
                   !.microQ = Append(@, t)]

-----------------------------------------------------------------------------
(* main.js: the interaction ledger *)

LEDGER_CAP == 100

MAX_SPENT_MS == 300000

IDLE_TIME_MS == 10000

BATCH_SIZE == 10

NewRecord(id, topics, hashtags, time) ==
    [postId |-> id, topics |-> topics, hashtags |-> hashtags,
     liked |-> FALSE, interested |-> FALSE, not_interested |-> FALSE,
     commented |-> FALSE, timeSpentMs |-> 0, timestamp |-> time]

\* a find that never finds
FindRecordMutant(ledger, id) == 0

\* 1-based position of interactions.find(i => i.postId === id), 0 if none
FindRecord(ledger, id) ==
    IF \E j \in DOMAIN ledger : ledger[j].postId = id
    THEN CHOOSE j \in DOMAIN ledger :
             /\ ledger[j].postId = id
             /\ \A m \in DOMAIN ledger : ledger[m].postId = id => j <= m
    ELSE 0

\* batch[current]?.topics || [] (current is 0-based)
CurrentField(s, field) ==
    IF s.current >= 0 /\ s.current < Len(s.batch)
    THEN s.batch[s.current + 1][field] ELSE <<>>

recordTimeSpentOnCurrentPost(s) ==
    IF s.lastViewedPostId = 0 \/ s.postViewStartTime = 0 THEN s
    ELSE LET spent == s.now - s.postViewStartTime
         IN IF spent > 0 /\ spent < MAX_SPENT_MS
            THEN LET j == FindRecord(s.interactions, s.lastViewedPostId)
                     ledger ==
                         IF j = 0
                         THEN Append(s.interactions,
                                  NewRecord(s.lastViewedPostId,
                                            CurrentField(s, "topics"),
                                            CurrentField(s, "hashtags"), s.now))
                         ELSE s.interactions
                     k == IF j = 0 THEN Len(ledger) ELSE j
                 IN [s EXCEPT !.interactions =
                         [ledger EXCEPT ![k].timeSpentMs = @ + spent]]
            ELSE s

\* interactions.slice(-100) once the push made it longer than 100
TrimAfterEngagement(ledger) ==
    IF Len(ledger) > LEDGER_CAP THEN TakeLast(ledger, LEDGER_CAP) ELSE ledger

\* the type switch without the two clearing assignments
ApplyEngagementMutant(inter, type) ==
    IF type = "interested" THEN [inter EXCEPT !.interested = TRUE]
    ELSE IF type = "not_interested" THEN [inter EXCEPT !.not_interested = TRUE]
    ELSE IF type = "like" THEN [inter EXCEPT !.liked = ~@]
    ELSE IF type = "comment" THEN [inter EXCEPT !.commented = TRUE]
    ELSE inter

ApplyEngagement(inter, type) ==
    IF type = "interested"
    THEN [inter EXCEPT !.interested = TRUE, !.not_interested = FALSE]
    ELSE IF type = "not_interested"
    THEN [inter EXCEPT !.not_interested = TRUE, !.interested = FALSE]
    ELSE IF type = "like" THEN [inter EXCEPT !.liked = ~@]
    ELSE IF type = "comment" THEN [inter EXCEPT !.commented = TRUE]
    ELSE inter

recordInteraction(s, type, post) ==
    LET j0 == FindRecord(s.interactions, post.id)
        ledger ==
            IF j0 = 0
            THEN TrimAfterEngagement(Append(s.interactions,
                     NewRecord(post.id, post.topics, post.hashtags, s.now)))
            ELSE s.interactions
        j  == IF j0 = 0 THEN Len(ledger) ELSE j0
        s1 == [s EXCEPT !.interactions =
                  [ledger EXCEPT ![j] = ApplyEngagement(@, type)]]
        s2 == IF s1.lastViewedPostId = post.id /\ s1.postViewStartTime # 0
              THEN [recordTimeSpentOnCurrentPost(s1)
                      EXCEPT !.postViewStartTime = s.now]
              ELSE s1
    IN [s2 EXCEPT !.interactions[j].timestamp = s.now,
                  \* resetIdleTimer
                  !.idleTimeout = s.now + IDLE_TIME_MS]

\* MODEL_TOPICS (or MODEL_HASHTAGS) after updateSeenTopicsAndHashtags
SeenAfter(vocabulary, postsBatch, field) ==
    Dedup(vocabulary \o
          Flatten([i \in DOMAIN postsBatch |-> postsBatch[i][field]]))

updateSeenTopicsAndHashtags(s, postsBatch) ==
    [s EXCEPT !.MODEL_TOPICS = SeenAfter(@, postsBatch, "topics"),
              !.MODEL_HASHTAGS = SeenAfter(@, postsBatch, "hashtags")]

-----------------------------------------------------------------------------
(* model.js: loadModel, trainModel, analyzeInteractions, cut at awaits *)

\* tfModel: the input dimension it was built with (0: tfModel is null),
\* whether a fit on it has completed, and which object it is
NoModel == [dim |-> 0, fitted |-> FALSE, id |-> 0]

\* loadModel from "if (!tfModel || force)" on
LoadModelBody(s, force) ==
    IF s.tfModel.dim = 0 \/ force
    THEN IF Len(s.MODEL_TOPICS) = 0
         THEN [s EXCEPT !.tfModel = [NoModel EXCEPT !.id = s.tfModel.id],
                        !.modelTrained = FALSE]
         ELSE [s EXCEPT !.tfModel = [dim |-> Len(s.MODEL_TOPICS),
                                     fitted |-> FALSE, id |-> s.tfModel.id + 1],
                        !.modelTrained = FALSE]
    ELSE s

TrainingGuardMutant(s) == Len(s.MODEL_TOPICS) = 0

\* "if (modelTraining || MODEL_TOPICS.length === 0) return"
TrainingGuard(s) == s.modelTraining \/ Len(s.MODEL_TOPICS) = 0

\* trainModel up to "await loadModel(true)"
TrainModelStart(s, t) ==
    IF TrainingGuard(s)
    THEN Settle(SetOutcome(s, t, IF s.modelTraining THEN "busy" ELSE "no_vocabulary",
                           NoResults), t, NoResults, FALSE)
    ELSE IF Len(s.interactions) < MIN_INTERACTIONS
    THEN Settle(SetOutcome(s, t, "too_few", NoResults), t, NoResults, FALSE)
    ELSE Ready(Suspend(LoadModelBody(SetOutcome(s, t, "training", NoResults), TRUE),
                       t, Frame("tm_awaitLoadModel")), t)

\* task u has a fit running: called, not refused, not yet settled
FitInFlight(s, u) ==
    /\ s.stack[u] # <<>>
    /\ Top(s, u).f = "tm_awaitFit"
    /\ ~Top(s, u).err

\* trainModel from "modelTraining = true" to "await tfModel.fit(...)".  A
\* LayersModel refuses fit() while another fit() on it is running: the call
\* rejects at once (err) and the catch runs at the next microtask.
TrainModelFit(s, t) ==
    LET refused == \E u \in Tasks :
                      FitInFlight(s, u) /\ Top(s, u).model = s.tfModel.id
        s1 == Relabel([s EXCEPT !.modelTraining = TRUE,
                                !.modelTrainingPromise = t], t,
                      [Frame("tm_awaitFit") EXCEPT !.promise = t,
                                                   !.model = s.tfModel.id,
                                                   !.err = refused])
    IN IF refused THEN Ready(s1, t) ELSE s1

\* the continuations waiting in loadModel for the promise that t created
Waiters(s, t) ==
    SelectSeq(TaskOrder,
              LAMBDA u : /\ s.stack[u] # <<>>
                         /\ Top(s, u).f = "lm_awaitTraining"
                         /\ Top(s, u).promise = t)

\* the same with the three statements of the finally block run on the
\* successful path only
TrainModelEndMutant(s, t, ok) ==
    LET fitted == ok /\ s.tfModel.id = Top(s, t).model /\ s.tfModel.dim > 0
        s1 == [s EXCEPT !.modelTrained = ok,
                        !.tfModel.fitted = IF fitted THEN TRUE ELSE @,
                        !.modelTraining = IF ok THEN FALSE ELSE @,
                        !.modelTrainingPromise = IF ok THEN "none" ELSE @,
                        !.microQ = IF ok THEN @ \o Waiters(s, t) ELSE @]
    IN Settle(SetOutcome(Pop(s1, t), t, IF ok THEN "trained" ELSE "failed",
                         NoResults), t, NoResults, FALSE)

\* trainModel after fit: "modelTrained = true" or the catch, then finally
TrainModelEnd(s, t, ok) ==
    LET fitted == ok /\ s.tfModel.id = Top(s, t).model /\ s.tfModel.dim > 0
        s1 == [s EXCEPT !.modelTrained = ok,
                        !.tfModel.fitted = IF fitted THEN TRUE ELSE @,
                        !.modelTraining = FALSE,
                        !.modelTrainingPromise = "none",
                        !.microQ = @ \o Waiters(s, t)]
    IN Settle(SetOutcome(Pop(s1, t), t, IF ok THEN "trained" ELSE "failed",
                         NoResults), t, NoResults, FALSE)

\* the same storing what was scored instead of what was blended
AnalyzeFinishMutant(s, t, results) ==
    LET blended == IF Len(s.previousTopicsResults) > 0
                   THEN blendWithPreviousResults(results, s.previousTopicsResults,
                                                 s.previousHashtagsResults)
                   ELSE results
        s1 == [s EXCEPT !.previousTopicsResults = StoreList(@, results.topics),
                        !.previousHashtagsResults = StoreList(@, results.hashtags)]
    IN Settle(SetOutcome(s1, t, "analyzed", blended), t, blended, FALSE)

\* analyzeInteractions from "if (blendPreviousResults && ...)" on
AnalyzeFinish(s, t, results) ==
    LET blended == IF Len(s.previousTopicsResults) > 0
                   THEN blendWithPreviousResults(results, s.previousTopicsResults,
                                                 s.previousHashtagsResults)
                   ELSE results
        s1 == [s EXCEPT !.previousTopicsResults = StoreList(@, blended.topics),
                        !.previousHashtagsResults = StoreList(@, blended.hashtags)]
    IN Settle(SetOutcome(s1, t, "analyzed", blended), t, blended, FALSE)

\* the window's size tested on the heuristic path only
InsufficientSignalMutant(s) ==
    Len(s.MODEL_TOPICS) = 0
    \/ (~s.modelTrained /\ Len(s.interactions) < MIN_INTERACTIONS)

\* the two early returns of analyzeInteractions
InsufficientSignal(s) ==
    Len(s.MODEL_TOPICS) = 0 \/ Len(s.interactions) < MIN_INTERACTIONS

\* analyzeInteractions up to "await loadModel(false)", and loadModel up to
\* "await modelTrainingPromise"
AnalyzeStart(s, t) ==
    IF InsufficientSignal(s)
    THEN Settle(SetOutcome(s, t, "no_signal", NoResults), t, NoResults, FALSE)
    ELSE IF ~s.modelTrained
    THEN AnalyzeFinish(s, t, analyzeWithoutModel(s.MODEL_TOPICS, s.MODEL_HASHTAGS,
                                                 s.interactions))
    ELSE IF s.modelTraining /\ s.modelTrainingPromise # "none"
    THEN Suspend(Suspend(SetOutcome(s, t, "analyzing", NoResults), t,
                         Frame("an_awaitLoadModel")), t,
                 [Frame("lm_awaitTraining") EXCEPT
                     !.promise = s.modelTrainingPromise])
    ELSE Ready(Suspend(LoadModelBody(SetOutcome(s, t, "analyzing", NoResults), FALSE),
                       t, Frame("an_awaitLoadModel")), t)

\* analyzeInteractions(window) for an array that is not the ledger: the
\* function reads its argument and never writes it
AnalyzeStartOn(s, t, window) ==
    [AnalyzeStart([s EXCEPT !.interactions = window], t)
        EXCEPT !.interactions = s.interactions]

\* loadModel(false) after "await modelTrainingPromise"
LoadModelResume(s, t) == Settle(LoadModelBody(Pop(s, t), FALSE), t, NoResults, FALSE)

\* analyzeInteractions after "await loadModel(false)": the two predict
\* calls throw when the rows are not of the model's input dimension, and
\* tf.tensor2d([]) throws when there is no hashtag row
AnalyzeResume(s, t, pred) ==
    LET s0 == Pop(s, t)
    IN IF s0.tfModel.dim # Len(s0.MODEL_TOPICS) \/ Len(s0.MODEL_HASHTAGS) = 0
       THEN Settle(SetOutcome(s0, t, "threw", NoResults), t, NoResults, TRUE)
       ELSE AnalyzeFinish(s0, t, analyzeWithModel(s0.MODEL_TOPICS,
                                                  s0.MODEL_HASHTAGS, pred))

-----------------------------------------------------------------------------
(* main.js: loadBatch, showPost, nextPost, cut at awaits *)

Names(list) == [i \in DOMAIN list |-> list[i].name]

\* params.topics = lastAnalyzed.topics.map(t => t.name || t), then
\* fetchPosts' value.join(",")
RequestParam(list) == JoinNames(Names(list))

\* loadBatch's params, and the headers fetchPosts makes of the proof
BuildRequest(analyzed) ==
    [NoRequest EXCEPT !.limit = BATCH_SIZE,
                      !.topics = RequestParam(analyzed.topics),
                      !.hashtags = RequestParam(analyzed.hashtags),
                      !.auth = Credential(TRUE, TRUE, TRUE, ClientRoot)]

\* the return without the finally block
LoadBatchEndMutant(s, t) == Settle(Pop(s, t), t, NoResults, FALSE)

\* the finally block, and the return
LoadBatchEnd(s, t) ==
    Settle([Pop(s, t) EXCEPT !.isLoadingBatch = FALSE], t, NoResults, FALSE)

\* the inner catch without its two assignments
LoadBatchFailedMutant(s, t) == LoadBatchEnd(s, t)

\* the inner catch
LoadBatchFailed(s, t) == LoadBatchEnd([s EXCEPT !.batch = <<>>, !.current = 0], t)

\* loadBatch going to the analysis without the call of trainModel
LoadBatchStartMutant(s, t) ==
    IF s.isLoadingBatch THEN Settle(s, t, NoResults, FALSE)
    ELSE AnalyzeStart(Suspend(recordTimeSpentOnCurrentPost(
                                  [s EXCEPT !.isLoadingBatch = TRUE]),
                              t, Frame("lb_awaitAnalyze")), t)

\* loadBatch up to its first await
LoadBatchStart(s, t) ==
    IF s.isLoadingBatch THEN Settle(s, t, NoResults, FALSE)
    ELSE LET s1 == recordTimeSpentOnCurrentPost([s EXCEPT !.isLoadingBatch = TRUE])
         IN IF ~s1.modelTraining
            THEN TrainModelStart(Suspend(s1, t, Frame("lb_awaitTrain")), t)
            ELSE AnalyzeStart(Suspend(s1, t, Frame("lb_awaitAnalyze")), t)

\* loadBatch after "await trainModel(interactions)"
LoadBatchAnalyze(s, t) == AnalyzeStart(Relabel(s, t, Frame("lb_awaitAnalyze")), t)

\* loadBatch after "await analyzeInteractions(interactions)" up to
\* "await generateZKPProof(...)"; a throw goes to the outer catch
LoadBatchProve(s, t) ==
    IF Top(s, t).err THEN LoadBatchEnd(s, t)
    ELSE Relabel([s EXCEPT !.lastAnalyzed = Top(s, t).val], t,
                 [Frame("lb_awaitProof") EXCEPT
                     !.req = BuildRequest(Top(s, t).val)])

\* loadBatch after generateZKPProof settled, up to "await fetchPosts(...)"
LoadBatchFetch(s, t, ok) ==
    IF ok THEN Relabel([s EXCEPT !.fetches[t] = @ + 1], t,
                       [Top(s, t) EXCEPT !.f = "lb_awaitFetch"])
    ELSE LoadBatchFailed(s, t)

\* loadBatch after fetchPosts settled: the server handled the request,
\* unless the network failed; fetchPosts throws on a response that is not ok
LoadBatchReceive(s, t, ok, noiseSeed, batchSeed) ==
    IF ~ok THEN LoadBatchFailed(s, t)
    ELSE LET response == GetPosts(s.posts, Top(s, t).req, noiseSeed, batchSeed)
             s1 == [s EXCEPT !.gw = response,
                             !.posts = CorpusAfter(@, response, noiseSeed, batchSeed)]
         IN IF response.status # 200 THEN LoadBatchFailed(s1, t)
            ELSE LoadBatchEnd(
                     updateSeenTopicsAndHashtags(
                         [s1 EXCEPT !.batch = response.posts, !.current = 0],
                         response.posts), t)

\* showPost from "FEED.innerHTML = ''" on; batch[idx].id throws when idx is
\* past the batch, after postViewStartTime was set
ShowPostDisplay(s, t, idx) ==
    LET s1 == IF Len(s.batch) > 0
              THEN IF idx < Len(s.batch)
                   THEN [s EXCEPT !.postViewStartTime = s.now,
                                  !.lastViewedPostId = s.batch[idx + 1].id,
                                  !.current = idx]
                   ELSE [s EXCEPT !.postViewStartTime = s.now]
              ELSE [s EXCEPT !.postViewStartTime = 0, !.lastViewedPostId = 0,
                             !.current = idx]
    IN Settle(s1, t, NoResults, FALSE)

\* the test of showPost without the margin of two items
NeedsBatchMutant(s, idx) == Len(s.batch) = 0 \/ idx < 0 \/ idx >= Len(s.batch)

\* whether showPost(idx) loads a new batch first
NeedsBatch(s, idx) == Len(s.batch) = 0 \/ idx < 0 \/ idx >= Len(s.batch) - 2

\* showPost up to "await loadBatch()", or to its end
ShowPostStart(s, t, idx) ==
    LET s1 == recordTimeSpentOnCurrentPost(s)
    IN IF NeedsBatch(s1, idx)
       THEN LoadBatchStart(Suspend(s1, t, Frame("sp_awaitLoadBatch")), t)
       ELSE ShowPostDisplay(s1, t, idx)

\* showPost after "await loadBatch()": idx = 0
ShowPostResume(s, t) == ShowPostDisplay(Pop(s, t), t, 0)

\* nextPost; "np_then" is the .then(() => showPost(0)) callback
nextPost(s, t) ==
    IF s.current < Len(s.batch) - 1
    THEN ShowPostStart(s, t, s.current + 1)
    ELSE LoadBatchStart(Suspend(s, t, Frame("np_then")), t)

prevPost(s, t) == IF s.current > 0 THEN ShowPostStart(s, t, s.current - 1) ELSE s

\* the visibilitychange listener
handleVisibilityChange(s, hidden) ==
    IF hidden
    THEN [recordTimeSpentOnCurrentPost(s) EXCEPT !.postViewStartTime = 0]
    ELSE [s EXCEPT !.postViewStartTime = s.now]

\* the callback of resetIdleTimer's timeout
IdleCallback(s, t) ==
    IF ~s.modelTraining THEN TrainModelStart([s EXCEPT !.idleTimeout = 0], t)
    ELSE [s EXCEPT !.idleTimeout = 0]

\* the continuation of task t at the await its innermost frame stands at
Resume(s, t, pred) ==
    LET f == Top(s, t).f
    IN IF f = "tm_awaitLoadModel" THEN TrainModelFit(s, t)
       ELSE IF f = "lm_awaitTraining" THEN LoadModelResume(s, t)
       ELSE IF f = "an_awaitLoadModel" THEN AnalyzeResume(s, t, pred)
       ELSE IF f = "lb_awaitTrain" THEN LoadBatchAnalyze(s, t)
       ELSE IF f = "lb_awaitAnalyze" THEN LoadBatchProve(s, t)
       ELSE IF f = "sp_awaitLoadBatch" THEN ShowPostResume(s, t)
       ELSE IF f = "np_then" THEN ShowPostStart(Pop(s, t), t, 0)
       ELSE IF f = "tm_awaitFit" THEN TrainModelEnd(s, t, FALSE)
       ELSE s

-----------------------------------------------------------------------------
(* Actions.  A macrotask (a DOM event, a timer, the completion of a fit or *)
(* of a network exchange) runs only when no microtask is queued; a call of *)
(* an exported function can come from any running code.                    *)

Idle == microQ = <<>>

\* a new macrotask that is an input: dt milliseconds later
Tick(dt) == [St EXCEPT !.now = @ + dt, !.steps = @ + 1]

\* a new event handled by task t
Trigger(t, dt) == [Tick(dt) EXCEPT !.fetches[t] = 0]

\* a completion: dt milliseconds later
Pass(dt) == [St EXCEPT !.now = @ + dt]

PostById(corpus, id) == corpus[CHOOSE i \in DOMAIN corpus : corpus[i].id = id]

\* DOMContentLoaded: initializeApp calls showPost(current)
InitializeApp(t) ==
    /\ Idle /\ steps = 0 /\ batch = <<>> /\ lastViewedPostId = 0
    /\ stack[t] = <<>>
    /\ Commit(ShowPostStart(Trigger(t, 0), t, current))

\* ArrowDown
NextPost(t, dt) ==
    /\ Idle /\ stack[t] = <<>>
    /\ Commit(nextPost(Trigger(t, dt), t))

\* ArrowUp
PrevPost(t, dt) ==
    /\ Idle /\ stack[t] = <<>>
    /\ Commit(prevPost(Trigger(t, dt), t))

\* a button of the displayed post, or the comment field's Enter
Engage(type, dt) ==
    /\ Idle /\ lastViewedPostId # 0
    /\ Commit(recordInteraction(Tick(dt), type, PostById(posts, lastViewedPostId)))

\* the page is hidden, or shown again
HandleVisibilityChange(hidden, dt) ==
    /\ Idle
    /\ Commit(handleVisibilityChange(Tick(dt), hidden))

\* the idle timeout expires
IdleTimerFires(dt) ==
    /\ Idle /\ idleTimeout # 0 /\ now + dt >= idleTimeout
    /\ stack["timer"] = <<>>
    /\ Commit(IdleCallback(Tick(dt), "timer"))

\* trainModel(interactions) called from outside the application's handlers
CallTrainModel(t) ==
    /\ stack[t] = <<>>
    /\ Commit(TrainModelStart(Tick(0), t))

\* analyzeInteractions(interactions) called from outside the handlers
CallAnalyzeInteractions(t) ==
    /\ stack[t] = <<>>
    /\ Commit(AnalyzeStart(Tick(0), t))

\* analyzeInteractions called from outside on the first n records
CallAnalyzeInteractionsOn(t, n) ==
    /\ stack[t] = <<>>
    /\ Commit(AnalyzeStartOn(Tick(0), t, Take(interactions, n)))

\* tfModel.fit settles
FitSettles(t, ok, dt) ==
    /\ Idle /\ FitInFlight(St, t)
    /\ Commit(TrainModelEnd(Pass(dt), t, ok))

\* generateZKPProof settles
ProofSettles(t, ok, dt) ==
    /\ Idle /\ stack[t] # <<>> /\ Top(St, t).f = "lb_awaitProof"
    /\ Commit(LoadBatchFetch(Pass(dt), t, ok))

\* fetchPosts settles
FetchSettles(t, ok, noiseSeed, batchSeed, dt) ==
    /\ Idle /\ stack[t] # <<>> /\ Top(St, t).f = "lb_awaitFetch"
    /\ Commit(LoadBatchReceive(Pass(dt), t, ok, noiseSeed, batchSeed))

NoPrediction == [n \in {} |-> 0]

AtPrediction == microQ # <<>> /\ Top(St, Head(microQ)).f = "an_awaitLoadModel"

\* the next microtask, other than the one that runs the network
RunMicrotask ==
    /\ microQ # <<>> /\ ~AtPrediction
    /\ Commit(Resume([St EXCEPT !.microQ = Tail(@)], Head(microQ), NoPrediction))

\* the microtask that runs the network: pred is what it predicts
RunPrediction(pred) ==
    /\ AtPrediction
    /\ Commit(Resume([St EXCEPT !.microQ = Tail(@)], Head(microQ), pred))

\* the state after the modules are loaded, with the server's corpus
NoProbe ==
    [op |-> "none", items |-> <<>>, minThreshold |-> 0, current |-> NoResults,
     index |-> 0, results |-> NoResults]

Construction(corpus) ==
    [interactions |-> <<>>, lastViewedPostId |-> 0, postViewStartTime |-> 0,
     batch |-> <<>>, current |-> 0, isLoadingBatch |-> FALSE,
     lastAnalyzed |-> NoResults, idleTimeout |-> 0, tfModel |-> NoModel,
     modelTrained |-> FALSE, modelTraining |-> FALSE,
     modelTrainingPromise |-> "none", MODEL_TOPICS |-> <<>>,
     MODEL_HASHTAGS |-> <<>>, previousTopicsResults |-> <<>>,
     previousHashtagsResults |-> <<>>, posts |-> corpus, gw |-> NoResponse,
     now |-> 1, stack |-> [t \in Tasks |-> <<>>], microQ |-> <<>>,
     outcome |-> [t \in Tasks |-> Outcome("none", NoResults)],
     steps |-> 0, probe |-> NoProbe, fetches |-> [t \in Tasks |-> 0]]

-----------------------------------------------------------------------------
(* Direct calls of the pure functions of model.js *)

MaxListLen == 5

SplitWeights == {-5000, 0, 500, 1500, 4000, 9000}

SplitThresholds == {MinWeight, 3 * MinWeight}

NameAt ==
    <<"sports", "news", "music", "tech", "food", "travel", "art", "film",
      "cars", "books", "games", "pets">>

\* the descending lists of k entries over the weight grid
DescendingLists(k) ==
    { [i \in 1..k |-> Entry(NameAt[i], f[i])] :
        f \in { g \in [1..k -> SplitWeights] :
                   \A i \in 1..(k - 1) : g[i] >= g[i + 1] } }

\* weights with gaps over the gap threshold that are at most 40% of the
\* weight they follow
GapWeights == {-5000, 500, 3600, 3700, 4100, 6000, 6700, 9000}

GapLists(k) ==
    { [i \in 1..k |-> Entry(NameAt[i], f[i])] :
        f \in { g \in [1..k -> GapWeights] :
                   \A i \in 1..(k - 1) : g[i] >= g[i + 1] } }

\* twelve entries, more pairs than the loop scans: 0.9 down to 0.05 after
\* the first k entries
LongLists ==
    { [i \in 1..(ScanPairs + 2) |->
         Entry(NameAt[i], IF i <= k THEN 9000 ELSE 500)] :
        k \in (ScanPairs - 1)..(ScanPairs + 2) }

SplitInputs ==
    { [NoProbe EXCEPT !.op = "split_input", !.items = l, !.minThreshold = th] :
        l \in UNION { DescendingLists(k) : k \in 1..MaxListLen }
               \cup GapLists(SplitKeepAll + 1) \cup LongLists,
        th \in SplitThresholds }

BlendWeights == {500, 2000, 6000}

CurrentTopicLists ==
    {<<>>}
    \cup { <<Entry(n, w)>> : n \in {"sports", "music"}, w \in BlendWeights }
    \cup { <<Entry("sports", w1), Entry("music", w2)>> :
             w1 \in BlendWeights, w2 \in BlendWeights }

CurrentHashtagLists ==
    { <<>>, <<Entry("#goal", 2000)>>, <<Entry("#goal", 500), Entry("#riff", 6000)>> }

\* Scenario D: five snapshots of one name at 0.9 .. 0.5, oldest first
ScenarioD(name) ==
    [i \in 1..MAX_STORED_RESULTS |-> <<Entry(name, (10 - i) * MinWeight)>>]

ScenarioDCurrent == 2 * MinWeight

\* retained snapshots, per domain: every list stored is non-empty and was
\* filtered to weights above 0.1
Histories ==
    { [topics |-> <<>>, hashtags |-> <<>>],
      [topics |-> <<>>, hashtags |-> << <<Entry("#goal", 4000)>> >>],
      [topics |-> << <<Entry("sports", 8000), Entry("tech", 5000)>> >>,
       hashtags |-> <<>>],
      [topics |-> << <<Entry("music", 3000)>>, <<Entry("sports", 1500)>> >>,
       hashtags |-> << <<Entry("#riff", 9000)>> >>],
      [topics |-> ScenarioD("sports"), hashtags |-> ScenarioD("#goal")] }

BlendInputs ==
    { [NoProbe EXCEPT !.op = "blend_input",
                      !.current = [topics |-> ct, hashtags |-> ch]] :
        ct \in CurrentTopicLists, ch \in CurrentHashtagLists }

InitFunctions ==
    \/ \E p \in SplitInputs : Start([Construction(<<>>) EXCEPT !.probe = p])
    \/ \E p \in BlendInputs, h \in Histories :
           Start([Construction(<<>>) EXCEPT !.probe = p,
                     !.previousTopicsResults = h.topics,
                     !.previousHashtagsResults = h.hashtags])

CallFindNaturalSplit ==
    /\ probe.op = "split_input"
    /\ Commit([St EXCEPT !.probe.op = "findNaturalSplit",
                  !.probe.index = findNaturalSplit(probe.items, probe.minThreshold)])

CallBlendWithPreviousResults ==
    /\ probe.op = "blend_input"
    /\ Commit([St EXCEPT !.probe.op = "blendWithPreviousResults",
                  !.probe.results =
                      blendWithPreviousResults(probe.current, previousTopicsResults,
                                               previousHashtagsResults)])

NextFunctions ==
    \/ CallFindNaturalSplit
    \/ CallBlendWithPreviousResults

SpecFunctions == InitFunctions /\ [][NextFunctions]_vars

\* C4 as stated: for a non-empty descending list findNaturalSplit returns an
\* index in [1, len], and exactly len when len <= 3.
SplitIndexAtLeastOne ==
    probe.op = "findNaturalSplit" /\ Len(probe.items) >= 1 =>
        /\ probe.index \in 1..Len(probe.items)
        /\ Len(probe.items) <= SplitKeepAll => probe.index = Len(probe.items)

\* C4: for a non-empty descending list findNaturalSplit returns an index in
\* [0, len]: exactly len when len <= 3, and 0 only when len > 3 and no
\* entry's weight exceeds minThreshold.
SplitIndexInRange ==
    probe.op = "findNaturalSplit" /\ Len(probe.items) >= 1 =>
        /\ probe.index \in 0..Len(probe.items)
        /\ Len(probe.items) <= SplitKeepAll => probe.index = Len(probe.items)
        /\ probe.index = 0 =>
              /\ Len(probe.items) > SplitKeepAll
              /\ \A i \in DOMAIN probe.items :
                     probe.items[i].weight <= probe.minThreshold

SplitIndexZeroReached ==
    /\ probe.op = "findNaturalSplit"
    /\ Len(probe.items) > SplitKeepAll
    /\ IsDesc(probe.items)
    /\ probe.index = 0

\* C9: blendWithPreviousResults called with no retained topic snapshot
\* returns the current result unchanged, names, weights and order, in both
\* domains.
BlendAgainstNothingIsIdentity ==
    probe.op = "blendWithPreviousResults" /\ Len(previousTopicsResults) = 0 =>
        probe.results = probe.current

BlendAgainstNothingReached ==
    /\ probe.op = "blendWithPreviousResults"
    /\ previousTopicsResults = <<>> /\ previousHashtagsResults = <<>>
    /\ ~IsDesc(probe.current.topics)
    /\ \E i \in DOMAIN probe.current.hashtags :
          probe.current.hashtags[i].weight <= MinWeight
    /\ probe.results = probe.current

\* the weight of name in a weighted list, 0 when absent
ListWeight(list, name) ==
    IF IndexOfName(list, name) = 0 THEN 0 ELSE list[IndexOfName(list, name)].weight

\* whether w lies strictly between Scenario D's current weight and the
\* unweighted average of its six weights
BetweenCurrentAndAverage(w) ==
    /\ w > ScenarioDCurrent
    /\ (MAX_STORED_RESULTS + 1) * w
         < ScenarioDCurrent
           + SumSeq([i \in 1..MAX_STORED_RESULTS |-> ScenarioD("x")[i][1].weight])

\* C10: with Scenario D's five snapshots of a name retained and the name's
\* current weight 0.2, the blended weight of the name is strictly greater
\* than 0.2 and strictly less than the unweighted average of the weights.
ScenarioDBlend ==
    /\ probe.op = "blendWithPreviousResults"
        /\ previousTopicsResults = ScenarioD("sports")
        /\ ListWeight(probe.current.topics, "sports") = ScenarioDCurrent
        => BetweenCurrentAndAverage(ListWeight(probe.results.topics, "sports"))
    /\ probe.op = "blendWithPreviousResults"
        /\ previousTopicsResults = ScenarioD("sports")
        /\ previousHashtagsResults = ScenarioD("#goal")
        /\ ListWeight(probe.current.hashtags, "#goal") = ScenarioDCurrent
        => BetweenCurrentAndAverage(ListWeight(probe.results.hashtags, "#goal"))

ScenarioDReached ==
    /\ probe.op = "blendWithPreviousResults"
    /\ previousTopicsResults = ScenarioD("sports")
    /\ probe.current.topics = <<Entry("sports", ScenarioDCurrent)>>
    /\ Len(probe.results.topics) = 1
    /\ probe.results.topics[1].name = "sports"
    /\ BetweenCurrentAndAverage(probe.results.topics[1].weight)

-----------------------------------------------------------------------------
(* The gateway alone: requests of any client against a fixed corpus *)

MaxLimit == 4

MaxRot == 2

ScenarioBSize == 50

Seeds == [rot : 0..MaxRot, rev : BOOLEAN]

SmallCorpus ==
    << Post(1, <<"sports">>, <<"#goal">>),
       Post(2, <<"music">>, <<"#riff">>),
       Post(3, <<"sports", "tech">>, <<"#goal", "#chip">>),
       Post(4, <<"tech">>, <<>>),
       Post(5, <<"food">>, <<"#riff">>),
       Post(6, <<>>, <<>>) >>

\* Scenario B: every fifth item carries "sports", the others do not
ScenarioBCorpus ==
    [i \in 1..ScenarioBSize |->
        Post(i, IF i % 5 = 0 THEN <<"sports">> ELSE <<"news">>,
             <<"#daily">>)]

ScenarioBRequest ==
    [NoRequest EXCEPT !.limit = 10,
                      !.topics = WeightedText(<<Entry("sports", Unit)>>)]

TopicTexts ==
    { AbsentText, JoinNames(<<"sports">>), JoinNames(<<"sports", "music">>),
      NamesText(<<"sports">>), WeightedText(<<Entry("sports", Unit)>>),
      WeightedText(<<Entry("sports", 8000), Entry("music", 3000)>>) }

HashtagTexts ==
    { AbsentText, NamesText(<<"#riff">>), WeightedText(<<Entry("#goal", 5000)>>) }

\* limit absent (0), or 1 .. MaxLimit, or the client's batch size
GatewayRequests ==
    { [NoRequest EXCEPT !.limit = l, !.topics = tt, !.hashtags = ht] :
        l \in 0..MaxLimit \cup {BATCH_SIZE}, tt \in TopicTexts, ht \in HashtagTexts }

InitGateway ==
    \E corpus \in {SmallCorpus, ScenarioBCorpus} : Start(Construction(corpus))

\* the server after the handler ran for a request
ServeRequest(s, req, noiseSeed, batchSeed) ==
    LET response == GetPosts(s.posts, req, noiseSeed, batchSeed)
    IN [s EXCEPT !.gw = response,
                 !.posts = CorpusAfter(@, response, noiseSeed, batchSeed)]

\* whether an import or a declaration of server.js binds the identifier
\* snarkjs that the middleware calls verify on
SnarkjsBound == FALSE

\* the verification middleware: the status it answers with, 0 when it
\* calls next()
VerifyMembership(auth) ==
    IF ~auth.present THEN 401
    ELSE IF ~auth.parses \/ ~SnarkjsBound THEN 400
    ELSE IF ~auth.verifies THEN 403
    ELSE IF auth.root # ExpectedRoot THEN 403
    ELSE 0

\* the response of a layer that refuses the request
Refusal(req, status) ==
    [NoResponse EXCEPT !.req = req, !.status = status, !.mode = "refused"]

\* the layers that match GET /api/posts, in the order they were registered:
\* app.get('/api/posts', ...) first, app.use('/api/posts', ...) after it
RouteLayers == <<"getPosts", "verifyMembership">>

RECURSIVE RunLayers(_, _, _, _, _)
\* Express runs the matching layers in order; a layer that answers without
\* calling next() ends the chain.  The handler of app.get always answers.
RunLayers(layers, s, req, noiseSeed, batchSeed) ==
    IF layers = <<>> THEN [s EXCEPT !.gw = Refusal(req, 404)]
    ELSE IF Head(layers) = "getPosts"
    THEN ServeRequest(s, req, noiseSeed, batchSeed)
    ELSE IF VerifyMembership(req.auth) = 0
    THEN RunLayers(Tail(layers), s, req, noiseSeed, batchSeed)
    ELSE [s EXCEPT !.gw = Refusal(req, VerifyMembership(req.auth))]

\* GET /api/posts.  The handler reads nothing that a request wrote, so one
\* request per behaviour covers every request.
HandleRequest(req, noiseSeed, batchSeed) ==
    /\ gw = NoResponse
    /\ Commit(ServeRequest(St, req, noiseSeed, batchSeed))

NextGateway ==
    \E req \in GatewayRequests, noiseSeed \in Seeds, batchSeed \in Seeds :
        HandleRequest(req, noiseSeed, batchSeed)

SpecGateway == InitGateway /\ [][NextGateway]_vars

SportsPosts(corpus) == SelectSeq(corpus, LAMBDA p : Includes(p.topics, "sports"))

ScenarioBHandled ==
    /\ posts = ScenarioBCorpus
    /\ gw.req = ScenarioBRequest
    /\ gw.status = 200

\* C6 as stated: in Scenario B the relevant pool is exactly the 10 sports
\* items, noiseCount is 3, and the batch of 10 is drawn from a combined pool
\* of at most 13 candidates.
ScenarioBPoolIsTheMatches ==
    ScenarioBHandled =>
        /\ Range(gw.relevant) = Range(SportsPosts(posts))
        /\ Len(gw.noise) = 3
        /\ Len(gw.filtered) <= 13
        /\ Len(gw.posts) = 10

\* C6: in Scenario B the relevant pool is the top 2*limit = 20 items by
\* score, the 10 sports items and 10 items of score 0; noiseCount is 3,
\* drawn from the other 30 items; the batch of 10 is drawn from a combined
\* pool of 23 candidates.
ScenarioBPoolIsTopTwiceLimit ==
    ScenarioBHandled =>
        /\ Len(gw.relevant) = 2 * gw.limit
        /\ Range(SportsPosts(posts)) \subseteq Range(gw.relevant)
        /\ Cardinality(Range(gw.relevant) \ Range(SportsPosts(posts))) = 10
        /\ Len(gw.noise) = 3
        /\ Range(gw.noise) \cap Range(gw.relevant) = {}
        /\ Len(gw.filtered) = 23
        /\ Len(gw.posts) = 10

ScenarioBReached ==
    /\ ScenarioBHandled
    /\ gw.mode = "weighted"
    /\ Len(gw.filtered) = 23
    /\ \E i \in DOMAIN gw.posts : ~Includes(gw.posts[i].topics, "sports")

\* C7: for a request with limit >= 1 that the handler answers, in each of
\* the three modes, the batch holds min(limit, size of the combined pool)
\* items, each a corpus member appearing once, the noise is disjoint from
\* the relevant pool, and total is the corpus size.
BatchIsBoundedDistinctSample ==
    gw.status = 200 /\ gw.limit >= 1 =>
        /\ gw.mode \in {"weighted", "names", "none"}
        /\ Len(gw.posts) = Min(gw.limit, Len(gw.filtered))
        /\ \A i \in DOMAIN gw.posts : Includes(posts, gw.posts[i])
        /\ \A i, j \in DOMAIN gw.posts : gw.posts[i] = gw.posts[j] => i = j
        /\ Range(gw.noise) \cap Range(gw.relevant) = {}
        /\ gw.total = Len(posts)

\* a batch cut to the limit from a pool that holds noise, in each mode
BatchSampledReached ==
    /\ gw.status = 200 /\ gw.mode = "names"
    /\ Len(gw.noise) >= 1
    /\ Len(gw.filtered) > gw.limit
    /\ Len(gw.posts) = gw.limit
    /\ \E i \in DOMAIN gw.posts : Includes(gw.noise, gw.posts[i])

-----------------------------------------------------------------------------
(* A session under way.  The corpus has 12 items.  The viewer went through *)
(* items 1..8 of the first batch, the second batch came as items 9..12     *)
(* and 1..6, and the viewer is now on its eighth item, item 4.  Every item *)
(* has been left once, so the ledger holds a record of each; no analysis   *)
(* has had 10 records to work on, so nothing is retained yet.              *)

SessionCorpus ==
    << Post(1, <<"sports">>, <<"#goal">>),
       Post(2, <<"music">>, <<"#riff">>),
       Post(3, <<"sports", "tech">>, <<"#goal", "#chip">>),
       Post(4, <<"tech">>, <<"#chip">>),
       Post(5, <<"news">>, <<"#daily">>),
       Post(6, <<"music">>, <<"#riff">>),
       Post(7, <<"sports">>, <<"#goal">>),
       Post(8, <<"news">>, <<"#daily">>),
       Post(9, <<"tech">>, <<"#chip">>),
       Post(10, <<"music", "news">>, <<"#riff">>),
       Post(11, <<"sports">>, <<"#goal">>),
       Post(12, <<"news", "music">>, <<"#daily">>) >>

SessionBatch == Rotate(SessionCorpus, 8)

ViewedAt(i) == 3000 * i

\* the record of item i: what the viewer did on it
SessionRecord(i) ==
    [NewRecord(i, SessionCorpus[i].topics, SessionCorpus[i].hashtags, ViewedAt(i))
       EXCEPT !.liked = i \in {1, 3},
              !.commented = i \in {2, 11},
              !.not_interested = i = 4,
              !.timeSpentMs = IF i = 6 THEN 1000 ELSE IF i <= 3 THEN 6000 ELSE 3000]

SessionStart ==
    [Construction(SessionCorpus) EXCEPT
        !.interactions = [i \in 1..12 |-> SessionRecord(i)],
        !.batch = Take(SessionBatch, BATCH_SIZE),
        !.current = 7,
        !.lastViewedPostId = 4,
        !.postViewStartTime = 59000,
        !.now = 60000,
        !.MODEL_TOPICS = SeenAfter(<<>>, SessionCorpus, "topics"),
        !.MODEL_HASHTAGS = SeenAfter(<<>>, SessionCorpus, "hashtags"),
        !.gw = GetPosts(SessionCorpus, BuildRequest(NoResults),
                        [rot |-> 0, rev |-> FALSE], [rot |-> 8, rev |-> FALSE])]

\* the same session after the idle timer ran a training pass that succeeded
SessionTrained ==
    [SessionStart EXCEPT
        !.tfModel = [dim |-> Len(SessionStart.MODEL_TOPICS), fitted |-> TRUE, id |-> 1],
        !.modelTrained = TRUE]

\* what the network may predict for each vocabulary name: P(engaged) -
\* P(disengaged), in ten-thousandths
Predictions ==
    { [n \in Range(SessionStart.MODEL_TOPICS) \cup Range(SessionStart.MODEL_HASHTAGS) |->
         CASE n = "sports" -> 5000 [] n = "music" -> 3100 [] n = "news" -> 500
           [] n = "tech" -> -2000 [] n = "#goal" -> 6000 [] n = "#riff" -> 900
           [] n = "#chip" -> 0 [] OTHER -> -5000],
      [n \in Range(SessionStart.MODEL_TOPICS) \cup Range(SessionStart.MODEL_HASHTAGS) |->
         CASE n = "sports" -> 5000 [] n = "music" -> -5000 [] n = "news" -> 0
           [] n = "tech" -> 4000 [] OTHER -> 2000] }

-----------------------------------------------------------------------------
(* Analysis cycles: analyzeInteractions called again and again while the   *)
(* viewer engages with the item on screen                                  *)

MaxScoreEvents == 6

EngageDelay == 1000

ScoreEngagements == {"like", "interested"}

InitScore == \E s \in {SessionStart, SessionTrained} : Start(s)

NextScore ==
    \/ steps < MaxScoreEvents /\ CallAnalyzeInteractions("analyze1")
    \/ \E type \in ScoreEngagements :
          steps < MaxScoreEvents /\ Engage(type, EngageDelay)
    \/ \E pred \in Predictions : RunPrediction(pred)

SpecScore == InitScore /\ [][NextScore]_vars

AllAboveMin(list) == \A i \in DOMAIN list : list[i].weight > MinWeight

ResultsAboveMin(results) == AllAboveMin(results.topics) /\ AllAboveMin(results.hashtags)

\* C5: every entry of every result returned by analyzeInteractions, to a
\* direct caller or to loadBatch, and every entry of every retained
\* snapshot, has weight > 0.1.
PreferenceWeightsAboveMin ==
    /\ \A t \in Tasks : ResultsAboveMin(outcome[t].val)
    /\ ResultsAboveMin(lastAnalyzed)
    /\ \A i \in DOMAIN previousTopicsResults : AllAboveMin(previousTopicsResults[i])
    /\ \A i \in DOMAIN previousHashtagsResults : AllAboveMin(previousHashtagsResults[i])

\* a learned, blended result returned with three snapshots behind it, in
\* which a name the oldest snapshot held is no longer present
BlendedResultReached ==
    /\ outcome["analyze1"].status = "analyzed"
    /\ modelTrained
    /\ Len(previousTopicsResults) >= 4
    /\ outcome["analyze1"].val = [topics |-> previousTopicsResults[Len(previousTopicsResults)],
                                  hashtags |-> previousHashtagsResults[Len(previousHashtagsResults)]]
    /\ \E i \in DOMAIN previousTopicsResults[1] :
          IndexOfName(outcome["analyze1"].val.topics, previousTopicsResults[1][i].name) = 0

-----------------------------------------------------------------------------
(* Training triggers: the idle timer, loadBatch on the way to the next     *)
(* batch, and direct calls of trainModel, in any interleaving              *)

MaxTrainEvents == 4

\* the session a second after the viewer pressed "not interested" on the
\* item on screen: the idle timer is armed
SessionArmed ==
    [SessionStart EXCEPT !.interactions[4].timestamp = 59000,
                         !.idleTimeout = 59000 + IDLE_TIME_MS]

FixedSeed == [rot |-> 0, rev |-> FALSE]

InitTrain == Start(SessionArmed)

NextTrain ==
    \/ \E t \in TrainCallers : steps < MaxTrainEvents /\ CallTrainModel(t)
    \/ steps < MaxTrainEvents /\ IdleTimerFires(IDLE_TIME_MS)
    \/ steps < MaxTrainEvents /\ NextPost("nav1", EngageDelay)
    \/ \E t \in Tasks, ok \in BOOLEAN : FitSettles(t, ok, 0)
    \/ \E t \in NavTasks : ProofSettles(t, TRUE, 0)
    \/ \E t \in NavTasks : FetchSettles(t, TRUE, FixedSeed, FixedSeed, 0)
    \/ RunMicrotask
    \/ \E pred \in Predictions : RunPrediction(pred)

SpecTrain == InitTrain /\ [][NextTrain]_vars

FitsInFlight == { t \in Tasks : FitInFlight(St, t) }

\* C2: at most one fit is in flight at any time, and modelTraining is true
\* for as long as a fit is in flight.
SingleFitInFlight ==
    /\ Cardinality(FitsInFlight) <= 1
    /\ FitsInFlight # {} => modelTraining

WeightsMatch(list, received) ==
    \A i \in DOMAIN list : WeightOf(received, list[i].name) = list[i].weight

\* C8: when the gateway has answered the request that loadBatch built from
\* lastAnalyzed, the weight it used for every topic and hashtag name of
\* lastAnalyzed is the weight lastAnalyzed holds for that name.
GatewayUsesClientWeights ==
    gw.status = 200 /\ gw.req = BuildRequest(lastAnalyzed) =>
        /\ WeightsMatch(lastAnalyzed.topics, gw.userTopics)
        /\ WeightsMatch(lastAnalyzed.hashtags, gw.userHashtags)

-----------------------------------------------------------------------------
(* A long sitting: from page load the viewer goes down the feed one item   *)
(* a second, now and then liking the item on screen.  The items carry no   *)
(* topic, so no training or analysis is ever due and every request is      *)
(* without preferences; each batch happens to start at the first item the  *)
(* viewer has no record of.                                                *)

MaxFeedEvents == 104

MaxFeedLikes == 1

FeedCorpusSize == 120

FeedCorpus == [i \in 1..FeedCorpusSize |-> Post(i, <<>>, <<>>)]

LikedCount == Cardinality({ i \in DOMAIN interactions : interactions[i].liked })

InitFeed == Start(Construction(FeedCorpus))

NextFeed ==
    \/ InitializeApp("nav1")
    \/ steps < MaxFeedEvents /\ NextPost("nav1", EngageDelay)
    \/ /\ steps < MaxFeedEvents
       /\ LikedCount < MaxFeedLikes
       /\ FindRecord(interactions, lastViewedPostId) = 0
       /\ Engage("like", EngageDelay)
    \/ ProofSettles("nav1", TRUE, 0)
    \/ FetchSettles("nav1", TRUE, FixedSeed,
                    [rot |-> Len(interactions), rev |-> FALSE], 0)
    \/ RunMicrotask

SpecFeed == InitFeed /\ [][NextFeed]_vars

\* C1: the interaction ledger never holds more than 100 records.
LedgerWithinCap == Len(interactions) <= LEDGER_CAP

-----------------------------------------------------------------------------
(* analyzeWithoutModel called on windows of ten records: some tagged       *)
(* "sports" and liked, the others tagged "news" with no explicit feedback  *)

HeuristicSportsTimes == {0, 1000, 5000, 9000}

HeuristicNewsTimes == {1000, 9000}

\* record i of a window whose sports records are at the positions in S
HeuristicRecord(i, S, sportsTime, newsTime) ==
    IF i \in S
    THEN [NewRecord(i, <<"sports">>, <<"#goal">>, i)
            EXCEPT !.liked = TRUE, !.timeSpentMs = sportsTime]
    ELSE [NewRecord(i, <<"news">>, <<"#daily">>, i)
            EXCEPT !.timeSpentMs = newsTime]

HeuristicWindows ==
    { [i \in 1..MIN_INTERACTIONS |-> HeuristicRecord(i, S, st, nt)] :
        S \in { T \in SUBSET (1..MIN_INTERACTIONS) : Cardinality(T) \in 5..7 },
        st \in HeuristicSportsTimes, nt \in HeuristicNewsTimes }

InitHeuristic ==
    \E w \in HeuristicWindows,
       vocabulary \in {<<"sports", "news">>, <<"news", "sports">>} :
        Start([Construction(<<>>) EXCEPT
                  !.interactions = w,
                  !.MODEL_TOPICS = vocabulary,
                  !.MODEL_HASHTAGS = <<"#goal", "#daily">>,
                  !.probe = [NoProbe EXCEPT !.op = "heuristic_input"]])

CallAnalyzeWithoutModel ==
    /\ probe.op = "heuristic_input"
    /\ Commit([St EXCEPT !.probe.op = "analyzeWithoutModel",
                  !.probe.results =
                      analyzeWithoutModel(MODEL_TOPICS, MODEL_HASHTAGS, interactions)])

NextHeuristic == CallAnalyzeWithoutModel

SpecHeuristic == InitHeuristic /\ [][NextHeuristic]_vars

\* Scenario A: 6 records tagged sports and liked, 4 tagged news with no
\* explicit feedback and 1000 ms of a 10000 ms item watched
ScenarioAWindow ==
    /\ Len(interactions) = 10
    /\ Cardinality({ i \in DOMAIN interactions :
                       /\ interactions[i].topics = <<"sports">>
                       /\ interactions[i].liked }) = 6
    /\ \A i \in DOMAIN interactions :
          \/ interactions[i].topics = <<"sports">> /\ interactions[i].liked
          \/ /\ interactions[i].topics = <<"news">>
             /\ ExplicitScore(interactions[i]) = 0
             /\ interactions[i].timeSpentMs = 1000

\* C11: on Scenario A's window the heuristic scorer's topic output holds
\* sports with weight > 0.1, ranks sports first, and does not hold news.
ScenarioAHeuristicRanking ==
    probe.op = "analyzeWithoutModel" /\ ScenarioAWindow =>
        /\ ListWeight(probe.results.topics, "sports") > MinWeight
        /\ IndexOfName(probe.results.topics, "sports") = 1
        /\ IndexOfName(probe.results.topics, "news") = 0

\* Scenario A scored with the vocabulary listing news first: sports alone
\* comes out, at 0.6 * 2 + 0.4 * 12 / 10 = 1.68
ScenarioAReached ==
    /\ probe.op = "analyzeWithoutModel"
    /\ ScenarioAWindow
    /\ MODEL_TOPICS = <<"news", "sports">>
    /\ \A i \in DOMAIN interactions : interactions[i].timeSpentMs = 1000
    /\ probe.results.topics = <<Entry("sports", 16800)>>

-----------------------------------------------------------------------------
(* Analysis of windows of any size: analyzeInteractions called on the      *)
(* first n records of the session's ledger, trained or not, with or        *)
(* without retained snapshots                                              *)

MaxSignalEvents == 4

WindowSizes == 0..(MIN_INTERACTIONS + 2)

InitSignal == \E s \in {SessionStart, SessionTrained} : Start(s)

NextSignal ==
    \/ \E n \in WindowSizes :
          steps < MaxSignalEvents /\ CallAnalyzeInteractionsOn("analyze1", n)
    \/ \E pred \in Predictions : RunPrediction(pred)

SpecSignal == InitSignal /\ [][NextSignal]_vars

\* C14: analyzeInteractions on a window of fewer than MIN_INTERACTIONS
\* records returns {topics: [], hashtags: []} whether or not the model is
\* trained: it returns at once, raises nothing, and retains nothing.
ShortWindowYieldsNothing ==
    [][\A n \in WindowSizes :
          CallAnalyzeInteractionsOn("analyze1", n) /\ n < MIN_INTERACTIONS =>
              /\ outcome'["analyze1"] = Outcome("no_signal", NoResults)
              /\ stack'["analyze1"] = <<>>
              /\ microQ' = microQ
              /\ UNCHANGED <<previousTopicsResults, previousHashtagsResults,
                             tfModel, modelTrained>>]_vars

\* a trained model with snapshots retained, and the last call, on a short
\* window, returned the empty result
ShortWindowReached ==
    /\ modelTrained
    /\ Len(previousTopicsResults) >= 2
    /\ outcome["analyze1"] = Outcome("no_signal", NoResults)

-----------------------------------------------------------------------------
(* Scoring cycles one after another: analyzeInteractions on the session's  *)
(* ledger, the model trained or not, the network predicting anything,      *)
(* including that no hashtag is liked                                      *)

MaxCycleEvents == 7

\* the network finds one topic and no hashtag engaging
NothingButSports ==
    [n \in Range(SessionStart.MODEL_TOPICS) \cup Range(SessionStart.MODEL_HASHTAGS) |->
        IF n = "sports" THEN 5000 ELSE -3000]

CyclePredictions == Predictions \cup {NothingButSports}

InitCycles == \E s \in {SessionStart, SessionTrained} : Start(s)

NextCycles ==
    \/ steps < MaxCycleEvents /\ CallAnalyzeInteractions("analyze1")
    \/ steps < MaxCycleEvents /\ Engage("not_interested", EngageDelay)
    \/ \E pred \in CyclePredictions : RunPrediction(pred)

SpecCycles == InitCycles /\ [][NextCycles]_vars

\* history h2 follows h by nothing, or by one snapshot appended as the
\* newest, the oldest leaving if h was full
FifoStep(h, h2) ==
    \/ h2 = h
    \/ /\ Len(h2) >= 1
       /\ h2 = Append(IF Len(h) < MAX_STORED_RESULTS THEN h ELSE Tail(h), h2[Len(h2)])

\* C15: each domain's retained history holds at most 5 snapshots, and when
\* an append would exceed 5 the oldest snapshot is the one evicted, the
\* rest keeping their oldest-to-newest order.
HistoryIsFifoCapped ==
    [][/\ Len(previousTopicsResults') <= MAX_STORED_RESULTS
       /\ Len(previousHashtagsResults') <= MAX_STORED_RESULTS
       /\ FifoStep(previousTopicsResults, previousTopicsResults')
       /\ FifoStep(previousHashtagsResults, previousHashtagsResults')]_vars

\* six heuristic cycles in a row from an empty history.  The first two
\* snapshots are the heuristic result itself (blending a list with itself
\* alone returns it); after the sixth cycle only one of them is retained.
EvictionReached ==
    LET heuristic == analyzeWithoutModel(MODEL_TOPICS, MODEL_HASHTAGS, interactions)
    IN /\ ~modelTrained
       /\ interactions = SessionStart.interactions
       /\ steps = MAX_STORED_RESULTS + 1
       /\ Len(previousTopicsResults) = MAX_STORED_RESULTS
       /\ Len(previousHashtagsResults) = MAX_STORED_RESULTS
       /\ previousTopicsResults[1] = heuristic.topics
       /\ previousTopicsResults[2] # heuristic.topics

\* a step in which a call of analyzeInteractions by analyze1 returns a result
CycleCompletes ==
    /\ \/ CallAnalyzeInteractions("analyze1")
       \/ \E pred \in CyclePredictions : RunPrediction(pred)
    /\ outcome'["analyze1"].status = "analyzed"

\* list appended to h as the newest snapshot
Appended(h, list) ==
    Append(IF Len(h) < MAX_STORED_RESULTS THEN h ELSE Tail(h), list)

-----------------------------------------------------------------------------
(* The gateway given payloads that are not weighted JSON arrays: names     *)
(* separated by commas, and texts that JSON.parse reads as null, a         *)
(* boolean or a number                                                     *)

PayloadTopicTexts ==
    { AbsentText, JoinNames(<<"null">>), JoinNames(<<"true">>), JoinNames(<<"42">>),
      JoinNames(<<"sports">>), JoinNames(<<"sports", "null">>),
      NamesText(<<"sports">>), WeightedText(<<Entry("sports", 8000)>>) }

PayloadHashtagTexts ==
    { AbsentText, JoinNames(<<"null">>), JoinNames(<<"42">>), JoinNames(<<"#goal">>),
      WeightedText(<<Entry("#goal", 5000)>>) }

PayloadRequests ==
    { [NoRequest EXCEPT !.limit = l, !.topics = tt, !.hashtags = ht] :
        l \in 0..MaxLimit, tt \in PayloadTopicTexts, ht \in PayloadHashtagTexts }

InitPayload == Start(Construction(SmallCorpus))

NextPayload ==
    \E req \in PayloadRequests, noiseSeed \in Seeds, batchSeed \in Seeds :
        HandleRequest(req, noiseSeed, batchSeed)

SpecPayload == InitPayload /\ [][NextPayload]_vars

\* a parameter the handler could not parse was read as names separated by
\* commas, each with weight 1
FallbackApplied(text, value) ==
    text.form # "absent" /\ ~JsonParses(text) =>
        /\ value.type = "array"
        /\ Len(value.elems) = Len(text.names)
        /\ \A i \in DOMAIN value.elems :
              value.elems[i] = ObjectElem(text.names[i], Unit)

\* C17: whatever the topics and hashtags parameters hold, the request
\* completes with a batch; a parameter that cannot be parsed is read as
\* comma-separated names with weight 1.
PayloadNeverFailsRequest ==
    gw.status # 0 =>
        /\ gw.status = 200
        /\ Len(gw.posts) = Min(gw.limit, Len(gw.filtered))
        /\ FallbackApplied(gw.req.topics, gw.userTopics)
        /\ FallbackApplied(gw.req.hashtags, gw.userHashtags)

-----------------------------------------------------------------------------
(* The feed from page load on a corpus of three items: the viewer moves    *)
(* on, presses the buttons of the item on screen, hides and shows the      *)
(* page; credential generation and the batch request succeed or fail.      *)
(* With three items in a batch every showPost(1) loads a new batch.        *)

MaxNavEvents == 4

NavCorpus == Take(SmallCorpus, 3)

EngagementTypes == {"like", "interested", "not_interested", "comment"}

\* how long the page was on screen before it was hidden
ViewTimes == {0, EngageDelay, MAX_SPENT_MS - 1, MAX_SPENT_MS, MAX_SPENT_MS + 1}

InitNav == Start(Construction(NavCorpus))

\* the listeners are set by initializeApp: no event before it
NextNav ==
    \/ InitializeApp("nav1")
    \/ \E t \in NavTasks :
          steps \in 1..(MaxNavEvents - 1) /\ NextPost(t, EngageDelay)
    \/ \E type \in EngagementTypes :
          steps \in 1..(MaxNavEvents - 1) /\ Engage(type, EngageDelay)
    \/ \E dt \in ViewTimes :
          steps \in 1..(MaxNavEvents - 1) /\ HandleVisibilityChange(TRUE, dt)
    \/ steps \in 1..(MaxNavEvents - 1) /\ HandleVisibilityChange(FALSE, EngageDelay)
    \/ \E t \in NavTasks, ok \in BOOLEAN : ProofSettles(t, ok, 0)
    \/ \E t \in NavTasks, ok \in BOOLEAN : FetchSettles(t, ok, FixedSeed, FixedSeed, 0)
    \/ RunMicrotask

SpecNav == InitNav /\ [][NextNav]_vars

\* C12: in every record of the ledger, interested and not_interested are
\* never both true.
InterestFlagsExclusive ==
    \A i \in DOMAIN interactions :
        ~(interactions[i].interested /\ interactions[i].not_interested)

\* a record engaged with twice, the last time with "not interested"
InterestFlagSetReached ==
    \E i \in DOMAIN interactions :
        /\ interactions[i].not_interested
        /\ ~interactions[i].interested
        /\ interactions[i].timeSpentMs = 2 * EngageDelay

\* timeSpentMs of the record of item id, 0 when there is none
TimeSpentOn(ledger, id) ==
    IF FindRecord(ledger, id) = 0 THEN 0
    ELSE ledger[FindRecord(ledger, id)].timeSpentMs

\* C13: the time an item was on screen when the page is hidden is added to
\* the item's record exactly when it is more than 0 and at most 300000 ms;
\* for any other time the ledger is left unchanged.
AccrualUpToFiveMinutes ==
    [][\A dt \in ViewTimes :
          /\ HandleVisibilityChange(TRUE, dt)
          /\ lastViewedPostId # 0 /\ postViewStartTime # 0
          => IF now' - postViewStartTime > 0
                /\ now' - postViewStartTime <= MAX_SPENT_MS
             THEN TimeSpentOn(interactions', lastViewedPostId) =
                     TimeSpentOn(interactions, lastViewedPostId)
                     + (now' - postViewStartTime)
             ELSE interactions' = interactions]_vars

\* a step in which task t's credential generation or batch request fails
LoadFails(t) ==
    \/ ProofSettles(t, FALSE, 0)
    \/ FetchSettles(t, FALSE, FixedSeed, FixedSeed, 0)

\* C18: when credential generation or the batch request fails, loadBatch
\* returns with the batch empty and the index 0, and nothing is thrown to
\* its caller.
FailedLoadLeavesEmptyBatch ==
    [][\A t \in NavTasks :
          LoadFails(t) =>
              /\ batch' = <<>> /\ current' = 0 /\ ~isLoadingBatch'
              /\ Len(stack'[t]) = Len(stack[t]) - 1
              /\ Top(St, t).f \in {"lb_awaitProof", "lb_awaitFetch"}
              /\ stack'[t][Len(stack'[t])].f \in {"sp_awaitLoadBatch", "np_then"}
              /\ ~stack'[t][Len(stack'[t])].err
              /\ microQ' = <<t>>]_vars

\* an item was viewed, so a batch had been loaded; the load that followed
\* failed and has returned to its caller
FailedLoadReached ==
    /\ interactions # <<>>
    /\ batch = <<>> /\ current = 0 /\ ~isLoadingBatch
    /\ gw.status = 200
    /\ \E t \in NavTasks :
          /\ microQ = <<t>>
          /\ Top(St, t).f = "sp_awaitLoadBatch"
          /\ ~Top(St, t).err

\* C19: one navigation event leads to at most one call of fetchPosts; after
\* a failed fetch none follows until the next navigation event.
OneFetchPerNavigation == \A t \in NavTasks : fetches[t] <= 1

-----------------------------------------------------------------------------
(* Direct calls of trainModel and the idle timer, with the event loop's    *)
(* progress: a queued continuation runs, and a fit settles in the end      *)

MaxLiveEvents == 3

\* the tasks that start a pass here
LiveTasks == TrainCallers \cup {"timer"}

FitEnds == \E t \in LiveTasks, ok \in BOOLEAN : FitSettles(t, ok, 0)

NextLive ==
    \/ \E t \in TrainCallers : steps < MaxLiveEvents /\ CallTrainModel(t)
    \/ steps < MaxLiveEvents /\ IdleTimerFires(IDLE_TIME_MS)
    \/ FitEnds
    \/ RunMicrotask

SpecTrainLive ==
    /\ InitTrain /\ [][NextLive]_vars
    /\ WF_vars(RunMicrotask) /\ WF_vars(FitEnds)

\* task t is inside a training pass: trainModel went past its guards and
\* has not returned
PassStarted(t) ==
    \E i \in DOMAIN stack[t] : stack[t][i].f \in {"tm_awaitLoadModel", "tm_awaitFit"}

\* task t's pass has just returned
PassEnded(t) ==
    /\ outcome[t].status \in {"trained", "failed"}
    /\ ~PassStarted(t)
    /\ ~modelTraining
    /\ modelTrainingPromise = "none"

\* no frame awaiting trainModel was handed an exception
TrainModelNeverThrows ==
    \A t \in Tasks : \A i \in DOMAIN stack[t] :
        stack[t][i].f = "lb_awaitTrain" => ~stack[t][i].err

\* C20: every training pass that starts ends, fit succeeding or throwing,
\* with modelTraining false and the completion promise cleared, and
\* trainModel never hands an exception to its caller.
TrainingPassEnds ==
    /\ \A t \in LiveTasks : PassStarted(t) ~> PassEnded(t)
    /\ []TrainModelNeverThrows

\* a pass whose fit threw has returned: not trained, not training
FailedPassReached ==
    \E t \in Tasks :
        /\ outcome[t].status = "failed"
        /\ stack[t] = <<>>
        /\ ~modelTrained /\ ~modelTraining /\ modelTrainingPromise = "none"
        /\ tfModel.dim > 0 /\ ~tfModel.fitted

-----------------------------------------------------------------------------
(* Retraining: the session with a trained model in place, then direct      *)
(* calls of trainModel whose fit succeeds or throws, and analysis cycles   *)
(* before, during and after them                                           *)

MaxRetrainEvents == 3

InitRetrain == Start(SessionTrained)

NextRetrain ==
    \/ \E t \in TrainCallers : steps < MaxRetrainEvents /\ CallTrainModel(t)
    \/ steps < MaxRetrainEvents /\ CallAnalyzeInteractions("analyze1")
    \/ \E t \in TrainCallers, ok \in BOOLEAN : FitSettles(t, ok, 0)
    \/ RunMicrotask
    \/ \E pred \in Predictions : RunPrediction(pred)

SpecRetrain == InitRetrain /\ [][NextRetrain]_vars

\* the model object that replaced the session's trained one: loadModel(true)
\* has run exactly once since
FirstRetrainModel == SessionTrained.tfModel.id + 1

\* C21: when the fit of a pass that began with a trained model throws, the
\* trained state is still there after the pass: modelTrained holds, tfModel
\* is a fitted model of the vocabulary's dimension, and analyzeInteractions
\* takes the learned path.
PriorModelSurvivesFailedPass ==
    \A t \in TrainCallers :
        outcome[t].status = "failed" /\ tfModel.id = FirstRetrainModel =>
            /\ modelTrained
            /\ tfModel.fitted
            /\ tfModel.dim = Len(MODEL_TOPICS)

-----------------------------------------------------------------------------
(* The gateway serving one request after another.  The handler has no      *)
(* await: each request is handled to its end before the next one starts,   *)
(* so requests that arrive together are handled in some order.             *)

MaxRequests == 3

CorpusRequests ==
    { [NoRequest EXCEPT !.limit = l, !.topics = tt, !.hashtags = ht] :
        l \in {0, 2}, tt \in TopicTexts \cup {JoinNames(<<"null">>)},
        ht \in {AbsentText, WeightedText(<<Entry("#goal", 5000)>>)} }

InitCorpus == Start(Construction(SmallCorpus))

\* GET /api/posts, again and again
HandleRequestAgain(req, noiseSeed, batchSeed) ==
    /\ steps < MaxRequests
    /\ Commit(ServeRequest(Tick(0), req, noiseSeed, batchSeed))

NextCorpus ==
    \E req \in CorpusRequests, noiseSeed \in Seeds, batchSeed \in Seeds :
        HandleRequestAgain(req, noiseSeed, batchSeed)

SpecCorpus == InitCorpus /\ [][NextCorpus]_vars

\* C22: after any number of requests, in any mode and in any order, the
\* corpus holds the items it held at startup, in the same order.
CorpusNeverChanges == posts = SmallCorpus

\* requests were served, the last one without preferences: its batch is
\* not in corpus order, the corpus is
ShuffledBatchReached ==
    /\ steps = MaxRequests
    /\ gw.status = 200 /\ gw.mode = "none"
    /\ gw.filtered = posts
    /\ Len(gw.posts) >= 2
    /\ gw.posts # Take(posts, Len(gw.posts))
    /\ posts = SmallCorpus

-----------------------------------------------------------------------------
(* The ledger while the viewer goes up and down batches of five items that *)
(* come in varying order, so that items are seen again, presses buttons,   *)
(* and hides and shows the page.  The items carry no topic: no training    *)
(* or analysis is due.                                                     *)

MaxLedgerEvents == 5

LedgerCorpus == [i \in 1..5 |-> Post(i, <<>>, <<>>)]

LedgerSeeds == { [rot |-> r, rev |-> FALSE] : r \in {0, 1} }

InitLedger == Start(Construction(LedgerCorpus))

NextLedger ==
    \/ InitializeApp("nav1")
    \/ steps \in 1..(MaxLedgerEvents - 1) /\ NextPost("nav1", EngageDelay)
    \/ steps \in 1..(MaxLedgerEvents - 1) /\ PrevPost("nav1", EngageDelay)
    \/ \E type \in EngagementTypes :
          steps \in 1..(MaxLedgerEvents - 1) /\ Engage(type, EngageDelay)
    \/ steps \in 1..(MaxLedgerEvents - 1) /\ HandleVisibilityChange(TRUE, EngageDelay)
    \/ steps \in 1..(MaxLedgerEvents - 1) /\ HandleVisibilityChange(FALSE, EngageDelay)
    \/ ProofSettles("nav1", TRUE, 0)
    \/ \E batchSeed \in LedgerSeeds : FetchSettles("nav1", TRUE, FixedSeed, batchSeed, 0)
    \/ RunMicrotask

SpecLedger == InitLedger /\ [][NextLedger]_vars

\* a step that records an engagement with, or view time of, the item on
\* screen
LedgerMutation ==
    \/ \E type \in EngagementTypes : Engage(type, EngageDelay)
    \/ HandleVisibilityChange(TRUE, EngageDelay)
    \/ NextPost("nav1", EngageDelay)
    \/ PrevPost("nav1", EngageDelay)

\* C23: no two records of the ledger have the same item id, and an
\* engagement or a view-time accrual on an item that has a record adds no
\* record.
OneRecordPerItem ==
    /\ [](\A i, j \in DOMAIN interactions :
             interactions[i].postId = interactions[j].postId => i = j)
    /\ [][LedgerMutation /\ FindRecord(interactions, lastViewedPostId) # 0 =>
             /\ Len(interactions') = Len(interactions)
             /\ \A i \in DOMAIN interactions :
                   interactions'[i].postId = interactions[i].postId]_vars

\* the item on screen has an older record, with a button pressed and the
\* time of two visits on it
RecordReusedReached ==
    \E i \in DOMAIN interactions :
        /\ i < Len(interactions)
        /\ interactions[i].postId = lastViewedPostId
        /\ ExplicitScore(interactions[i]) # 0
        /\ interactions[i].timeSpentMs >= 2 * EngageDelay

-----------------------------------------------------------------------------
(* The server as a whole: requests with every kind of credential arrive    *)
(* at the application and go through the layers registered for the path    *)

Credentials ==
    { NoCredential,
      Credential(TRUE, FALSE, FALSE, "none"),
      Credential(TRUE, TRUE, FALSE, ExpectedRoot),
      Credential(TRUE, TRUE, TRUE, ClientRoot),
      Credential(TRUE, TRUE, TRUE, ExpectedRoot) }

AuthRequests ==
    { [NoRequest EXCEPT !.limit = l, !.topics = tt, !.auth = a] :
        l \in 0..MaxLimit, tt \in TopicTexts, a \in Credentials }

InitAuth == Start(Construction(SmallCorpus))

\* a GET request for /api/posts reaches the application
ReceiveRequest(req, noiseSeed, batchSeed) ==
    /\ gw = NoResponse
    /\ Commit(RunLayers(RouteLayers, St, req, noiseSeed, batchSeed))

NextAuth ==
    \E req \in AuthRequests, noiseSeed \in Seeds, batchSeed \in Seeds :
        ReceiveRequest(req, noiseSeed, batchSeed)

SpecAuth == InitAuth /\ [][NextAuth]_vars

\* the credential is one that membership verification accepts
Verified(auth) ==
    auth.present /\ auth.parses /\ auth.verifies /\ auth.root = ExpectedRoot

\* C24: a response that carries items answers a request whose credential
\* passed membership verification; a request with missing credentials, an
\* invalid proof, another root or a malformed credential receives none.
OnlyVerifiedRequestsGetItems ==
    gw.posts # <<>> => Verified(gw.req.auth)

-----------------------------------------------------------------------------
(* The score of one record, as trainModel computes it before it labels     *)
(* the record and as analyzeWithoutModel computes it, for every setting    *)
(* of the four flags and view times around the thresholds                  *)

RecordTimes == {0, 1000, 1999, 2000, 5000, 7000, 7001, 10000, 20000}

ScoredRecords ==
    { [NewRecord(1, <<"sports">>, <<"#goal">>, 1)
         EXCEPT !.liked = l, !.interested = i, !.not_interested = n,
                !.commented = c, !.timeSpentMs = ms] :
        l \in BOOLEAN, i \in BOOLEAN, n \in BOOLEAN, c \in BOOLEAN,
        ms \in RecordTimes }

InitRecordScore ==
    \E r \in ScoredRecords :
        Start([Construction(<<>>) EXCEPT
                  !.interactions = <<r>>,
                  !.probe = [NoProbe EXCEPT !.op = "score_input"]])

\* the body of trainModel's loop up to the label, on the record
CallTrainingScore ==
    /\ probe.op = "score_input"
    /\ Commit([St EXCEPT !.probe.op = "trainModel",
                  !.probe.index = TrainingScore(interactions[1])])

\* the body of analyzeWithoutModel's loop up to the score, on the record
CallHeuristicScore ==
    /\ probe.op = "score_input"
    /\ Commit([St EXCEPT !.probe.op = "analyzeWithoutModel",
                  !.probe.index = HeuristicScore(interactions[1])])

NextRecordScore == CallTrainingScore \/ CallHeuristicScore

SpecRecordScore == InitRecordScore /\ [][NextRecordScore]_vars

NoFlagSet(inter) ==
    ~inter.liked /\ ~inter.interested /\ ~inter.not_interested /\ ~inter.commented

\* 3.0, 2.0, -4.0 and 1.5 for the flags set, plus (timeSpentMs / duration
\* - 0.5) * 2 when none is set
SharedScore(inter) ==
      (IF inter.liked THEN 3 * Unit ELSE 0)
    + (IF inter.interested THEN 2 * Unit ELSE 0)
    - (IF inter.not_interested THEN 4 * Unit ELSE 0)
    + (IF inter.commented THEN (3 * Unit) \div 2 ELSE 0)
    + (IF NoFlagSet(inter)
       THEN 2 * ((inter.timeSpentMs * Unit) \div DEFAULT_DURATION) - Unit
       ELSE 0)

RatioTenths(inter) == (10 * inter.timeSpentMs * Unit) \div DEFAULT_DURATION

-----------------------------------------------------------------------------
(* findNaturalSplit on descending lists of more than three entries *)

\* the pairs the loop scans, by the 1-based position of their first entry
ScannedPairs(items) == 1..Min(Len(items) - 1, ScanPairs)

GapAt(items, i) == items[i].weight - items[i + 1].weight

\* gap > Math.max(0.1, items[0].weight * 0.25)
OverGapThreshold(items, i) ==
    4 * GapAt(items, i) > Max(4 * MinWeight, items[1].weight)

\* gap / items[i].weight > num / den
RelativeGapAt(items, i, num, den) ==
    RelativeGapOver(GapAt(items, i), items[i].weight, num, den)

\* C26: for a descending list of more than 3 entries: when no scanned pair
\* has a relative gap over 0.4, the split is right after the largest gap
\* among the scanned pairs whose gap is over max(0.1, topWeight * 0.25);
\* when a scanned pair has a relative gap over 0.6, the split is right after
\* the first such pair; when no scanned pair qualifies, the result is
\* min(5, number of entries with weight > minThreshold).
SplitTracksLargestGap ==
    LET items == probe.items
        pairs == ScannedPairs(items)
        over  == { i \in pairs : OverGapThreshold(items, i) }
        mild  == { i \in pairs : RelativeGapAt(items, i, 4, 10) }
        sharp == { i \in pairs : RelativeGapAt(items, i, 6, 10) }
    IN probe.op = "findNaturalSplit" /\ Len(items) > SplitKeepAll /\ IsDesc(items) =>
          /\ mild = {} /\ over # {} =>
                /\ probe.index \in over
                /\ \A i \in over : GapAt(items, i) <= GapAt(items, probe.index)
          /\ sharp # {} =>
                /\ probe.index \in sharp
                /\ \A i \in sharp : probe.index <= i
          /\ mild = {} /\ over = {} =>
                probe.index =
                    Min(5, Cardinality({ i \in DOMAIN items :
                                           items[i].weight > probe.minThreshold }))

\* 0.9, 0.67, 0.41, 0.36: two gaps over the threshold of 0.225, neither
\* over 40% of its weight, the second the larger: the split is 2
LargestGapReached ==
    /\ probe.op = "findNaturalSplit"
    /\ [i \in DOMAIN probe.items |-> probe.items[i].weight] = <<9000, 6700, 4100, 3600>>
    /\ probe.index = 2

-----------------------------------------------------------------------------
(* Timestamps of the ledger's records, in the same sitting *)

\* C27: a step that adds a record to the ledger or changes one leaves that
\* record with the time of the step as its timestamp.
MutationStampsRecord ==
    [][\A i \in DOMAIN interactions' :
          (i \notin DOMAIN interactions \/ interactions'[i] # interactions[i]) =>
              interactions'[i].timestamp = now']_vars

-----------------------------------------------------------------------------
(* Vocabulary growth.  The session's corpus holds a thirteenth item, with  *)
(* a topic and a hashtag that no batch has brought yet.  The idle timer    *)
(* trains, the viewer goes down the feed and likes an item when no timer   *)
(* is pending, batches arrive in one order or another, a fit succeeds or   *)
(* throws.                                                                 *)

MaxGrowthEvents == 11

GrowthCorpus ==
    SubSeq(SessionCorpus, 1, 8) \o <<Post(13, <<"travel">>, <<"#trip">>)>>
    \o SubSeq(SessionCorpus, 9, 12)

GrowthStart ==
    [SessionArmed EXCEPT
        !.posts = GrowthCorpus,
        !.gw = GetPosts(GrowthCorpus, BuildRequest(NoResults),
                        FixedSeed, [rot |-> 9, rev |-> FALSE])]

GrowthSeeds == {FixedSeed, [rot |-> 0, rev |-> TRUE]}

\* the network's output over the grown vocabulary
GrowthPredictions ==
    { [n \in Range(SeenAfter(<<>>, GrowthCorpus, "topics"))
              \cup Range(SeenAfter(<<>>, GrowthCorpus, "hashtags")) |->
         CASE n = "sports" -> 5000 [] n = "travel" -> 3000 [] n = "#goal" -> 6000
           [] n = "#trip" -> 2000 [] OTHER -> -2000] }

InitGrowth == Start(GrowthStart)

NextGrowth ==
    \/ steps < MaxGrowthEvents /\ IdleTimerFires(IDLE_TIME_MS)
    \/ steps < MaxGrowthEvents /\ NextPost("nav1", EngageDelay)
    \/ /\ steps < MaxGrowthEvents
       /\ idleTimeout = 0
       /\ Engage("like", IDLE_TIME_MS)
    \/ \E t \in {"nav1", "timer"}, ok \in BOOLEAN : FitSettles(t, ok, 0)
    \/ ProofSettles("nav1", TRUE, 0)
    \/ \E batchSeed \in GrowthSeeds : FetchSettles("nav1", TRUE, FixedSeed, batchSeed, 0)
    \/ RunMicrotask
    \/ \E pred \in GrowthPredictions : RunPrediction(pred)

SpecGrowth == InitGrowth /\ [][NextGrowth]_vars

\* C28: whenever analyzeInteractions, called by loadBatch, goes on to
\* predict, the input dimension of tfModel is the size of the topic
\* vocabulary, and the call returns a result.
LearnedPathFitsVocabulary ==
    [][\A pred \in GrowthPredictions :
          RunPrediction(pred) =>
              /\ tfModel.dim = Len(MODEL_TOPICS)
              /\ outcome'[Head(microQ)].status = "analyzed"]_vars

\* the vocabulary grew after a model of the old dimension was built; the
\* load that followed trained anew and has just scored with the network,
\* the new topic among its rows
GrownVocabularyScoredReached ==
    /\ Len(MODEL_TOPICS) = Len(SessionStart.MODEL_TOPICS) + 1
    /\ modelTrained /\ tfModel.fitted
    /\ tfModel.id >= 2
    /\ tfModel.dim = Len(MODEL_TOPICS)
    /\ microQ = <<"nav1">>
    /\ Top(St, "nav1").f = "lb_awaitAnalyze"
    /\ outcome["nav1"].status = "analyzed"
    /\ IndexOfName(outcome["nav1"].val.topics, "travel") # 0

-----------------------------------------------------------------------------
(* Key presses while a batch is being loaded, in a session over a corpus   *)
(* whose items carry no hashtag: the analysis that follows a successful    *)
(* training throws, the one that follows a failed training does not.       *)
(* Credential generation and the request succeed or fail.                  *)

MaxLoadEvents == 4

PlainCorpus == [i \in 1..12 |-> Post(i, SessionCorpus[i].topics, <<>>)]

PlainStart ==
    [SessionArmed EXCEPT
        !.posts = PlainCorpus,
        !.interactions = [i \in 1..12 |->
                             [SessionArmed.interactions[i] EXCEPT !.hashtags = <<>>]],
        !.batch = Take(Rotate(PlainCorpus, 8), BATCH_SIZE),
        !.MODEL_HASHTAGS = <<>>,
        !.gw = GetPosts(PlainCorpus, BuildRequest(NoResults),
                        FixedSeed, [rot |-> 8, rev |-> FALSE])]

InitLoad == Start(PlainStart)

NextLoad ==
    \/ \E t \in NavTasks : steps < MaxLoadEvents /\ NextPost(t, EngageDelay)
    \/ \E t \in NavTasks, ok \in BOOLEAN : FitSettles(t, ok, 0)
    \/ \E t \in NavTasks, ok \in BOOLEAN : ProofSettles(t, ok, 0)
    \/ \E t \in NavTasks, ok \in BOOLEAN : FetchSettles(t, ok, FixedSeed, FixedSeed, 0)
    \/ RunMicrotask
    \/ \E pred \in Predictions : RunPrediction(pred)

SpecLoad == InitLoad /\ [][NextLoad]_vars

\* the frames of loadBatch between "isLoadingBatch = true" and the finally
LoadBatchFrames == {"lb_awaitTrain", "lb_awaitAnalyze", "lb_awaitProof", "lb_awaitFetch"}

\* the bodies of loadBatch that are executing
LoadsInFlight ==
    { <<t, i>> \in Tasks \X (1..4) :
        i \in DOMAIN stack[t] /\ stack[t][i].f \in LoadBatchFrames }

\* C29: at most one body of loadBatch is executing; isLoadingBatch is true
\* while one is and false once it has ended, however it ended; a key press
\* while one is executing starts none, sends no request and leaves the
\* batch as it is.
OneLoadAtATime ==
    /\ [](Cardinality(LoadsInFlight) <= 1)
    /\ [](isLoadingBatch <=> LoadsInFlight # {})
    /\ [][\A t \in NavTasks :
             NextPost(t, EngageDelay) /\ isLoadingBatch =>
                 /\ batch' = batch
                 /\ LoadsInFlight' = LoadsInFlight
                 /\ fetches'[t] = 0
                 /\ isLoadingBatch']_vars

\* after two key presses or more, the analysis inside a loadBatch threw and
\* loadBatch has returned to its caller with the flag cleared and the batch
\* as it was
LoadThrewReached ==
    /\ outcome["nav1"].status = "threw"
    /\ ~isLoadingBatch
    /\ LoadsInFlight = {}
    /\ microQ = <<"nav1">>
    /\ ~Top(St, "nav1").err
    /\ stack["nav2"] = <<>> /\ steps >= 2
    /\ batch = PlainStart.batch

-----------------------------------------------------------------------------
(* Browsing through batches of three items or more: the corpus has fewer   *)
(* items than BATCH_SIZE, so a batch holds all of them, in the order the   *)
(* server's shuffle gives.  Two key-press tasks; credential generation and *)
(* the request succeed or fail.                                            *)

MaxBrowseEvents == 5

MaxBrowseCorpus == 5

BrowseCorpus(k) == [i \in 1..k |-> Post(i, <<>>, <<>>)]

InitBrowse == \E k \in 3..MaxBrowseCorpus : Start(Construction(BrowseCorpus(k)))

NextBrowse ==
    \/ InitializeApp("nav1")
    \/ \E t \in NavTasks :
          steps \in 1..(MaxBrowseEvents - 1) /\ NextPost(t, EngageDelay)
    \/ steps \in 1..(MaxBrowseEvents - 1) /\ PrevPost("nav1", EngageDelay)
    \/ \E t \in NavTasks, ok \in BOOLEAN : ProofSettles(t, ok, 0)
    \/ \E t \in NavTasks, ok \in BOOLEAN, batchSeed \in LedgerSeeds :
          FetchSettles(t, ok, FixedSeed, batchSeed, 0)
    \/ RunMicrotask

SpecBrowse == InitBrowse /\ [][NextBrowse]_vars

\* task t is inside showPost, at or below "await loadBatch()"
InShowPostLoad(stk) == \E i \in DOMAIN stk : stk[i].f = "sp_awaitLoadBatch"

\* C30: in a batch of n >= 3 items the displayed index is below n - 2; a
\* forward key press that asks for index n - 2 or more calls loadBatch
\* and displays nothing before it returns; showPost then displays index 0;
\* and whatever is displayed is the item of the batch at the displayed
\* index.
LastTwoNeverDisplayed ==
    /\ [](Len(batch) >= 3 => current < Len(batch) - 2)
    /\ [][\A t \in NavTasks :
             (/\ NextPost(t, EngageDelay)
              /\ Len(batch) >= 3
              /\ current + 1 >= Len(batch) - 2)
             => /\ InShowPostLoad(stack'[t])
                /\ current' = current
                /\ lastViewedPostId' = lastViewedPostId]_vars
    /\ [][(/\ RunMicrotask
           /\ Top(St, Head(microQ)).f = "sp_awaitLoadBatch")
          => /\ current' = 0
             /\ Len(batch) > 0 => lastViewedPostId' = batch[1].id]_vars
    /\ [][lastViewedPostId' # lastViewedPostId
          => IF Len(batch') = 0 THEN lastViewedPostId' = 0
             ELSE lastViewedPostId' = batch'[current' + 1].id]_vars

\* the first batch was browsed up to its index n - 3, the next key press
\* loaded a second batch, and its index 0 is displayed
SecondBatchFromStartReached ==
    /\ Len(batch) >= 4
    /\ fetches["nav1"] = 2 /\ fetches["nav2"] = 0
    /\ Len(interactions) = Len(batch) - 2
    /\ current = 0 /\ lastViewedPostId = batch[1].id
    /\ \A t \in Tasks : stack[t] = <<>>
    /\ microQ = <<>>

====
